---------------------------- MODULE Spec2Model ----------------------------
(*************************************************************************)
(* A model of bd_parser: main.rs from the command line to the summary     *)
(* (arguments, sitemaps, the bounded-concurrency scheduler, the CSV rows), *)
(* the retrying fetch of LabirintParser, the single-attempt fetch of       *)
(* IgraSlov, the field parsers, parse_book and the Isbn validator.         *)
(*                                                                         *)
(* Strings that the code inspects character by character (ISBN text, the   *)
(* Retry-After header) are sequences of one-character strings.  URLs are   *)
(* sequences of the path fragments the code searches for with contains().  *)
(*************************************************************************)
EXTENDS Integers, Sequences, FiniteSets, TLC

(***************************************************************************)
(* Bounds of the model.                                                    *)
(***************************************************************************)
MaxUrls == 3
MaxTasks == 2
MaxCalls == 2
MaxDigits == 14
MaxTokens == 3

(***************************************************************************)
(* Program constants.                                                      *)
(***************************************************************************)
MAX_RETRIES == 1
BACKOFF_CAP == 8
DEFAULT_CONCURRENT_TASKS == 3
DEFAULT_BOOKS_PER_STORE == 1500
IGRASLOV_SECOND_SITEMAP_THRESHOLD == 1000

(***************************************************************************)
(* Character and string helpers (std::str).                                *)
(***************************************************************************)
Digits == <<"0", "1", "2", "3", "4", "5", "6", "7", "8", "9">>

is_ascii_digit(c) == \E i \in 1..10 : Digits[i] = c

DigitValue(c) == (CHOOSE i \in 1..10 : Digits[i] = c) - 1

is_whitespace(c) == c \in {" ", "\t", "\n"}

RECURSIVE trim_start(_)
trim_start(s) ==
    IF s # <<>> /\ is_whitespace(Head(s)) THEN trim_start(Tail(s)) ELSE s

RECURSIVE trim_end(_)
trim_end(s) ==
    IF s # <<>> /\ is_whitespace(s[Len(s)])
    THEN trim_end(SubSeq(s, 1, Len(s) - 1))
    ELSE s

trim(s) == trim_end(trim_start(s))

\* str::replace(chars, ""): every occurrence of one of the characters is removed
replace_with_empty(s, chars) == SelectSeq(s, LAMBDA c : c \notin chars)

count_digits(s) == Len(SelectSeq(s, is_ascii_digit))

all_digits(s) == \A i \in 1..Len(s) : is_ascii_digit(s[i])

\* a URL is the sequence of its fragments; contains() looks for one of them
contains(url, frag) == \E i \in 1..Len(url) : url[i] = frag

RECURSIVE SumSeq(_)
SumSeq(s) == IF s = <<>> THEN 0 ELSE Head(s) + SumSeq(Tail(s))

Min(a, b) == IF a < b THEN a ELSE b

(***************************************************************************)
(* Isbn (parse_traits.rs).  A result is [ok, val]: val is the stored text  *)
(* of an Ok value and <<>> for an Err.                                     *)
(***************************************************************************)
IsbnErr == [ok |-> FALSE, val |-> <<>>]

\* (10..=13).contains(&digit_count)
IsbnLenOk(digit_count) == digit_count \in 10..13

Isbn_stored_Cleaned(s, cleaned) == cleaned

\* Ok(Self(s)): the text kept is the argument, not the cleaned copy
Isbn_stored(s, cleaned) == s

Isbn_new(s) ==
    LET cleaned == replace_with_empty(trim(s), {"-", " "})
        digit_count == count_digits(cleaned)
    IN  IF IsbnLenOk(digit_count) /\ all_digits(cleaned)
        THEN [ok |-> TRUE, val |-> Isbn_stored(s, cleaned)]
        ELSE IsbnErr

Isbn_as_str(isbn) == isbn.val

\* str::split([',', ';']): the pieces between separators, empty ones included
RECURSIVE split(_, _)
split(s, seps) ==
    IF \A i \in 1..Len(s) : s[i] \notin seps
    THEN <<s>>
    ELSE LET i == CHOOSE k \in 1..Len(s) :
                      s[k] \in seps /\ \A j \in 1..(k - 1) : s[j] \notin seps
         IN  <<SubSeq(s, 1, i - 1)>> \o split(SubSeq(s, i + 1, Len(s)), seps)

is_digit_13(isbn) == count_digits(isbn) = 13

Isbn_tokens_KeepEmpty(raw) ==
    LET pieces == split(raw, {",", ";"})
    IN  [i \in 1..Len(pieces) |-> trim(pieces[i])]

Isbn_tokens(raw) ==
    LET pieces == split(raw, {",", ";"})
        trimmed == [i \in 1..Len(pieces) |-> trim(pieces[i])]
    IN  SelectSeq(trimmed, LAMBDA t : t # <<>>)

Isbn_parse_LastThirteen(raw) ==
    LET tokens == Isbn_tokens(raw)
    IN  IF tokens = <<>>
        THEN IsbnErr
        ELSE IF \E i \in 1..Len(tokens) : is_digit_13(tokens[i])
        THEN LET i == CHOOSE k \in 1..Len(tokens) :
                          /\ is_digit_13(tokens[k])
                          /\ \A j \in (k + 1)..Len(tokens) :
                                ~is_digit_13(tokens[j])
             IN  [ok |-> TRUE, val |-> tokens[i]]
        ELSE [ok |-> TRUE, val |-> tokens[Len(tokens)]]

\* Isbn::parse: the first token with 13 digits, else the last token
Isbn_parse(raw) ==
    LET tokens == Isbn_tokens(raw)
    IN  IF tokens = <<>>
        THEN IsbnErr
        ELSE IF \E i \in 1..Len(tokens) : is_digit_13(tokens[i])
        THEN LET i == CHOOSE k \in 1..Len(tokens) :
                          /\ is_digit_13(tokens[k])
                          /\ \A j \in 1..(k - 1) : ~is_digit_13(tokens[j])
             IN  [ok |-> TRUE, val |-> tokens[i]]
        ELSE [ok |-> TRUE, val |-> tokens[Len(tokens)]]

\* Isbn::new(Isbn::parse(s)?)
Isbn_try_from(s) ==
    LET chosen == Isbn_parse(s)
    IN  IF chosen.ok THEN Isbn_new(chosen.val) ELSE IsbnErr

(***************************************************************************)
(* HTTP as the fetch code sees it.  A completed send() is either a network *)
(* error or a response with a status and, possibly, a Retry-After header.  *)
(***************************************************************************)
NoHeader == [present |-> FALSE, text |-> <<>>]

Header(t) == [present |-> TRUE, text |-> t]

NetErr == [kind |-> "neterr", status |-> 0, retry_after |-> NoHeader]

Resp(st, h) == [kind |-> "resp", status |-> st, retry_after |-> h]

is_success(status) == status \in 200..299

is_server_error(status) == status \in 500..599

is_client_error(status) == status \in 400..499

RECURSIVE DecimalValue(_)
DecimalValue(s) ==
    IF s = <<>> THEN 0
    ELSE 10 * DecimalValue(SubSeq(s, 1, Len(s) - 1)) + DigitValue(s[Len(s)])

\* str::parse::<u64>(): an optional '+', then one or more digits; anything
\* else is an error.  [some, val] stands for Option<u64>.
parse_u64(s) ==
    LET body == IF s # <<>> /\ Head(s) = "+" THEN Tail(s) ELSE s
    IN  IF body # <<>> /\ all_digits(body)
        THEN [some |-> TRUE, val |-> DecimalValue(body)]
        ELSE [some |-> FALSE, val |-> 0]

retry_after_of_Capped(resp) ==
    IF resp.retry_after.present
    THEN LET v == parse_u64(resp.retry_after.text)
         IN  [some |-> v.some, val |-> Min(v.val, BACKOFF_CAP)]
    ELSE [some |-> FALSE, val |-> 0]

\* resp.headers().get(RETRY_AFTER).and_then(to_str).and_then(parse::<u64>)
retry_after_of(resp) ==
    IF resp.retry_after.present
    THEN parse_u64(resp.retry_after.text)
    ELSE [some |-> FALSE, val |-> 0]

\* (1_u64 << attempt).min(8)
Backoff(attempt) == Min(2^attempt, BACKOFF_CAP)

Wait_IgnoreHeader(retry_after, attempt) == Backoff(attempt)

\* retry_after.unwrap_or_else(|| base.min(8))
Wait(retry_after, attempt) ==
    IF retry_after.some THEN retry_after.val ELSE Backoff(attempt)

IsRetryable_Any4xx(status) == is_client_error(status) \/ is_server_error(status)

\* status.as_u16() == 429 || status.is_server_error()
IsRetryable(status) == status = 429 \/ is_server_error(status)

InRange_OneMore(attempt) == attempt <= MAX_RETRIES + 1

\* for attempt in 0..=MAX_RETRIES
InRange(attempt) == attempt <= MAX_RETRIES

(***************************************************************************)
(* The state of one fetch call.  pc is the await the call is suspended at  *)
(* ("send", "sleep", "body") or how it returned ("ok", "err").  status 0   *)
(* stands for None.  reqs, sleeps, hist and waits record what the call did, *)
(* ctx the position in hist of the response whose body became the context. *)
(***************************************************************************)
NoError == [kind |-> "none", status |-> 0]

FetchIdle ==
    [pc |-> "idle", attempt |-> 0, last_status |-> 0, last_err |-> FALSE,
     reqs |-> 0, sleeps |-> 0, hist |-> <<>>, waits |-> <<>>, ctx |-> 0,
     err |-> NoError, url |-> <<>>]

FetchFail(f, kind, status) ==
    [f EXCEPT !.pc = "err", !.err = [kind |-> kind, status |-> status]]

ExhaustedError_NetworkFirst(last_status, last_err) ==
    IF last_err THEN [kind |-> "network_after_retries", status |-> 0]
    ELSE IF last_status # 0
    THEN [kind |-> "status_after_retries", status |-> last_status]
    ELSE [kind |-> "unknown", status |-> 0]

\* the error chosen after the loop
ExhaustedError(last_status, last_err) ==
    IF last_status # 0
    THEN [kind |-> "status_after_retries", status |-> last_status]
    ELSE IF last_err THEN [kind |-> "network_after_retries", status |-> 0]
    ELSE [kind |-> "unknown", status |-> 0]

\* the head of the for loop: the next iteration sends a request, the end of
\* the range falls through to the code after the loop
Labirint_loop(f, attempt) ==
    IF InRange(attempt)
    THEN [f EXCEPT !.pc = "send", !.attempt = attempt, !.reqs = @ + 1]
    ELSE [f EXCEPT !.pc = "err",
                   !.err = ExhaustedError(f.last_status, f.last_err)]

\* a fetch that sends its request whatever the URL is
Labirint_fetch_NoCheck(url) ==
    Labirint_loop([FetchIdle EXCEPT !.url = url], 0)

\* LabirintParser::fetch up to its first await
Labirint_fetch(url) ==
    LET f == [FetchIdle EXCEPT !.url = url]
    IN  IF ~contains(url, "books")
        THEN FetchFail(f, "not_book_url", 0)
        ELSE Labirint_loop(f, 0)

Labirint_sleep(f, wait) ==
    [f EXCEPT !.pc = "sleep", !.sleeps = @ + 1, !.waits = Append(@, wait)]

\* client.get(url).send().await completes with r
Labirint_on_send(f, r) ==
    LET g == [f EXCEPT !.hist = Append(@, r)]
    IN  IF r.kind = "resp"
        THEN IF is_success(r.status)
             THEN [g EXCEPT !.pc = "body"]
             ELSE LET h == [g EXCEPT !.last_status = r.status]
                  IN  IF IsRetryable(r.status) /\ h.attempt < MAX_RETRIES
                      THEN Labirint_sleep(h, Wait(retry_after_of(r), h.attempt))
                      ELSE FetchFail(h, "status", r.status)
        ELSE LET h == [g EXCEPT !.last_err = TRUE]
             IN  IF h.attempt < MAX_RETRIES
                 THEN Labirint_sleep(h, Backoff(h.attempt))
                 ELSE Labirint_loop(h, h.attempt + 1)

\* a loop that sleeps again instead of going on to the next attempt
Labirint_on_wake_SleepAgain(f) == [f EXCEPT !.pc = "sleep"]

\* tokio::time::sleep(..).await completes; continue
Labirint_on_wake(f) == Labirint_loop(f, f.attempt + 1)

\* a body that cannot be read is treated like a failed request
Labirint_on_body_Retry(f, body_ok) ==
    IF body_ok
    THEN [f EXCEPT !.pc = "ok", !.ctx = Len(f.hist)]
    ELSE IF f.attempt < MAX_RETRIES
    THEN Labirint_sleep(f, Backoff(f.attempt))
    ELSE FetchFail(f, "body", 0)

\* resp.text().await completes
Labirint_on_body(f, body_ok) ==
    IF body_ok
    THEN [f EXCEPT !.pc = "ok", !.ctx = Len(f.hist)]
    ELSE FetchFail(f, "body", 0)

\* IgraSlov::fetch up to its first await
IgraSlov_fetch(url) ==
    [FetchIdle EXCEPT !.pc = "send", !.reqs = 1, !.url = url]

IgraSlov_on_send(f, r) ==
    LET g == [f EXCEPT !.hist = Append(@, r)]
    IN  IF r.kind = "resp"
        THEN IF ~is_success(r.status)
             THEN FetchFail(g, "status_hidden", 0)
             ELSE [g EXCEPT !.pc = "body"]
        ELSE FetchFail([g EXCEPT !.last_err = TRUE], "network", 0)

IgraSlov_on_body(f, body_ok) ==
    IF body_ok
    THEN [f EXCEPT !.pc = "ok", !.ctx = Len(f.hist)]
    ELSE FetchFail(f, "body", 0)

(***************************************************************************)
(* Field parsers and parse_book.  A page context is what the selectors     *)
(* find in it: the text of each author node, the text of each title node,  *)
(* and the text of the last ISBN element if there is one.  An error is the *)
(* anyhow chain, outermost message first; a message is its words and the   *)
(* URL formatted into it, if any.  A field result is [ok, val, err].       *)
(***************************************************************************)
Page(authors, title, has_isbn, isbn_text) ==
    [authors |-> authors, title |-> title, has_isbn |-> has_isbn,
     isbn_text |-> isbn_text]

Author_new(s) == trim(s)

Title_new(s) == trim(s)

NoUrl == <<>>

Msg(words, url) == [words |-> words, url |-> url]

\* .context(msg) on an Err: msg becomes the outermost message of the chain
WithContext(msg, err) == <<msg>> \o err

RECURSIVE Concat(_)
Concat(texts) ==
    IF texts = <<>> THEN <<>> ELSE Head(texts) \o Concat(Tail(texts))

strip_prefix(s, c) == IF s # <<>> /\ Head(s) = c THEN Tail(s) ELSE s

FieldOk(v) == [ok |-> TRUE, val |-> v, err |-> <<>>]

FieldErr(err) == [ok |-> FALSE, val |-> <<>>, err |-> err]

\* the error of Isbn::try_from for text it rejects
Isbn_error(raw) ==
    IF Isbn_parse(raw).ok
    THEN <<Msg(<<"Invalid", "ISBN", "format">>, NoUrl)>>
    ELSE <<Msg(<<"No", "ISBN", "detected", "in", "input">>, NoUrl)>>

Labirint_parse_authors(page) ==
    FieldOk([i \in 1..Len(page.authors) |-> Author_new(page.authors[i])])

IgraSlov_parse_authors(page) ==
    FieldOk([i \in 1..Len(page.authors) |-> Author_new(page.authors[i])])

Labirint_parse_title(page) == FieldOk(Title_new(Concat(page.title)))

IgraSlov_parse_title(page) ==
    FieldOk(Title_new(strip_prefix(Concat(page.title), "_")))

\* LabirintParser::parse_isbn
Labirint_parse_isbn(page, url) ==
    IF page.has_isbn
    THEN LET raw == replace_with_empty(page.isbn_text, {"nbsp"})
             r == Isbn_try_from(raw)
         IN  IF r.ok
             THEN FieldOk(r.val)
             ELSE FieldErr(WithContext(
                      Msg(<<"Failed", "to", "parse", "ISBN", "from", "page">>,
                          url),
                      Isbn_error(raw)))
    ELSE FieldErr(<<Msg(<<"ISBN", "element", "not", "found", "on", "page">>,
                        NoUrl)>>)

\* IgraSlov::parse_isbn
IgraSlov_parse_isbn(page, url) ==
    IF page.has_isbn
    THEN LET r == Isbn_try_from(replace_with_empty(page.isbn_text, {"nbsp"}))
         IN  IF r.ok
             THEN FieldOk(r.val)
             ELSE FieldErr(<<Msg(<<"can't", "parse", "isbn">>, NoUrl)>>)
    ELSE FieldErr(<<Msg(<<"can't", "find", "isbn", "on", "this", "page">>,
                        NoUrl)>>)

NoBook ==
    [site |-> "none", source |-> <<>>, authors |-> <<>>, isbn |-> <<>>,
     title |-> <<>>]

\* the Result of one task: Ok(book), or an Err that arose at `stage`;
\* `calls` lists the trait methods parse_book awaited, in order
TaskOk(book) ==
    [ok |-> TRUE, stage |-> "none", book |-> book, err |-> <<>>,
     calls |-> <<>>]

TaskErr(stage, err) ==
    [ok |-> FALSE, stage |-> stage, book |-> NoBook, err |-> err,
     calls |-> <<>>]

\* a Result reached after awaiting `calls`
After(calls, res) == [res EXCEPT !.calls = calls]

Site(cap) == IF cap = "LabirintParser" THEN "labirint" ELSE "igra_slov"

parse_authors(cap, page) ==
    IF cap = "LabirintParser"
    THEN Labirint_parse_authors(page)
    ELSE IgraSlov_parse_authors(page)

parse_title(cap, page) ==
    IF cap = "LabirintParser"
    THEN Labirint_parse_title(page)
    ELSE IgraSlov_parse_title(page)

parse_isbn(cap, page, url) ==
    IF cap = "LabirintParser"
    THEN Labirint_parse_isbn(page, url)
    ELSE IgraSlov_parse_isbn(page, url)

\* the message of the error fetch returned
Fetch_error(f) == <<Msg(<<"fetch", f.err.kind>>, NoUrl)>>

\* LabirintParser::parse_book wraps each step in .context(..); the default
\* parse_book, which IgraSlov uses, passes the step's error on as it is
StepContext(cap, words, err) ==
    IF cap = "LabirintParser" THEN WithContext(Msg(words, NoUrl), err) ELSE err

parse_book_PartialBook(cap, url, f, page) ==
    IF f.pc = "err"
    THEN TaskErr("fetch", Fetch_error(f))
    ELSE TaskOk([site |-> Site(cap), source |-> url,
                 authors |-> parse_authors(cap, page).val,
                 isbn |-> parse_isbn(cap, page, url).val,
                 title |-> parse_title(cap, page).val])

\* a parse_book that awaits every parser before it looks at a Result
parse_book_AwaitAll(cap, url, f, page) ==
    LET authors == parse_authors(cap, page)
        title == parse_title(cap, page)
        isbn == parse_isbn(cap, page, url)
        all == <<"fetch", "parse_authors", "parse_title", "parse_isbn">>
    IN  IF f.pc = "err"
        THEN After(all, TaskErr("fetch", Fetch_error(f)))
        ELSE IF ~isbn.ok
        THEN After(all, TaskErr("isbn", isbn.err))
        ELSE After(all, TaskOk([site |-> Site(cap), source |-> url,
                                authors |-> authors.val, isbn |-> isbn.val,
                                title |-> title.val]))

\* parse_book: fetch, parse_authors, parse_title, parse_isbn, Book; each
\* awaited call is followed by `?`, which returns its Err at once.  `f` is
\* the return of the fetch the first line awaited.
parse_book(cap, url, f, page) ==
    LET c1 == <<"fetch">>
        c2 == Append(c1, "parse_authors")
        c3 == Append(c2, "parse_title")
        c4 == Append(c3, "parse_isbn")
    IN  IF f.pc = "err"
        THEN After(c1, TaskErr("fetch",
                               StepContext(cap, <<"Failed", "to", "fetch",
                                                  "page">>, Fetch_error(f))))
        ELSE LET authors == parse_authors(cap, page)
             IN  IF ~authors.ok
                 THEN After(c2, TaskErr("authors",
                                        StepContext(cap, <<"Failed", "to",
                                                           "parse", "authors">>,
                                                    authors.err)))
                 ELSE LET title == parse_title(cap, page)
                      IN  IF ~title.ok
                          THEN After(c3, TaskErr("title",
                                   StepContext(cap, <<"Failed", "to", "parse",
                                                      "title">>, title.err)))
                          ELSE LET isbn == parse_isbn(cap, page, url)
                               IN  IF ~isbn.ok
                                   THEN After(c4, TaskErr("isbn",
                                            StepContext(cap, <<"Failed", "to",
                                                               "parse", "ISBN">>,
                                                        isbn.err)))
                                   ELSE After(c4,
                                            TaskOk([site |-> Site(cap),
                                                    source |-> url,
                                                    authors |-> authors.val,
                                                    isbn |-> isbn.val,
                                                    title |-> title.val]))

\* what the tally loop of main uses of a task's Result: Ok(book) is written,
\* Err(e) is only logged and counted
Outcome(res) == [ok |-> res.ok, stage |-> res.stage, book |-> res.book]

fetch(cap, url) ==
    IF cap = "LabirintParser" THEN Labirint_fetch(url) ELSE IgraSlov_fetch(url)

on_send(cap, f, r) ==
    IF cap = "LabirintParser"
    THEN Labirint_on_send(f, r)
    ELSE IgraSlov_on_send(f, r)

on_body(cap, f, body_ok) ==
    IF cap = "LabirintParser"
    THEN Labirint_on_body(f, body_ok)
    ELSE IgraSlov_on_body(f, body_ok)

(***************************************************************************)
(* The scheduler of main(): stream::iter(urls).map(..).buffer_unordered(N) *)
(* .collect(), then the tally loop.                                        *)
(***************************************************************************)
Dispatch_DefaultIgraSlov(url) ==
    IF contains(url, "labirint") THEN "LabirintParser" ELSE "IgraSlov"

\* the if / else if / else of the task body
Dispatch(url) ==
    IF contains(url, "labirint") THEN "LabirintParser"
    ELSE IF contains(url, "igraslov") THEN "IgraSlov"
    ELSE "none"

CanStart_Inclusive(in_flight, max) == in_flight <= max

\* buffer_unordered(max) polls the stream only while fewer than max futures
\* are in progress
CanStart(in_flight, max) == in_flight < max

FetchAdd_Lost(c, n) == c

\* AtomicU64::fetch_add: the stored value after the call
FetchAdd(c, n) == c + n

CollectResult_OkOnly(bs, r) == IF r.res.ok THEN Append(bs, r) ELSE bs

\* collect() into Vec<Result<..>>: every item of the stream is kept
CollectResult(bs, r) == Append(bs, r)

(***************************************************************************)
(* The start of main(): arguments, sitemaps, the CSV file.                 *)
(***************************************************************************)
\* str::parse::<usize>()
parse_usize(s) == parse_u64(s)

BelowOne_Never(num) == FALSE

\* if num < 1 { return Err(..) }
BelowOne(num) == num < 1

ArgsOk(ct, bps) ==
    [ok |-> TRUE, concurrent_tasks |-> ct, books_per_store |-> bps,
     err |-> "none"]

ArgsErr(why) ==
    [ok |-> FALSE, concurrent_tasks |-> 0, books_per_store |-> 0, err |-> why]

\* the loop over std::env::args().skip(1).enumerate(), from the i-th
\* argument on (i counts from 1 here)
RECURSIVE parse_args_from(_, _, _, _)
parse_args_from(args, i, ct, bps) ==
    IF i > Len(args)
    THEN ArgsOk(ct, bps)
    ELSE IF i > 2
    THEN ArgsErr("too_many_arguments")
    ELSE LET num == parse_usize(args[i])
         IN  IF ~num.some
             THEN ArgsErr("invalid_number")
             ELSE IF BelowOne(num.val)
             THEN ArgsErr("below_one")
             ELSE parse_args_from(args, i + 1,
                                  IF i = 1 THEN num.val ELSE ct,
                                  IF i = 2 THEN num.val ELSE bps)

parse_args(args) ==
    parse_args_from(args, 1, DEFAULT_CONCURRENT_TASKS,
                    DEFAULT_BOOKS_PER_STORE)

\* Iterator::take(n)
take(q, n) == SubSeq(q, 1, Min(n, Len(q)))

\* .filter(|u| u.contains("/books/"))
filter_books(q) == SelectSeq(q, LAMBDA u : contains(u, "books"))

IsPrefix(a, b) == Len(a) <= Len(b) /\ SubSeq(b, 1, Len(a)) = a

BOOK_CSV_HEADERS == <<"site", "source", "isbn", "title", "authors">>

\* [..].join(sep)
RECURSIVE join(_, _)
join(texts, sep) ==
    IF texts = <<>> THEN <<>>
    ELSE IF Len(texts) = 1 THEN texts[1]
    ELSE texts[1] \o sep \o join(Tail(texts), sep)

AuthorSeparator == <<";", " ">>

write_csv_record_NoSource(book) ==
    <<book.site, book.isbn, book.title,
      join(book.authors, AuthorSeparator)>>

\* the record write_csv_record hands to the writer
write_csv_record(book) ==
    <<book.site, book.source, book.isbn, book.title,
      join(book.authors, AuthorSeparator)>>

(***************************************************************************)
(* EksmoParser (eksmo.rs).  main does not dispatch to it; its parse_book   *)
(* is the one that also reads a description.  A single attempt, like       *)
(* IgraSlov; the description is the text of the matched paragraphs.        *)
(***************************************************************************)
Eksmo_fetch(url) ==
    [FetchIdle EXCEPT !.pc = "send", !.reqs = 1, !.url = url]

Eksmo_on_send(f, r) ==
    LET g == [f EXCEPT !.hist = Append(@, r)]
    IN  IF r.kind = "resp"
        THEN IF ~is_success(r.status)
             THEN FetchFail(g, "status_hidden", 0)
             ELSE [g EXCEPT !.pc = "body"]
        ELSE FetchFail([g EXCEPT !.last_err = TRUE], "network", 0)

Eksmo_on_body(f, body_ok) ==
    IF body_ok
    THEN [f EXCEPT !.pc = "ok", !.ctx = Len(f.hist)]
    ELSE FetchFail(f, "body", 0)

Eksmo_parse_authors(page) ==
    FieldOk([i \in 1..Len(page.authors) |-> Author_new(page.authors[i])])

Eksmo_parse_title(page) == FieldOk(Title_new(Concat(page.title)))

Eksmo_parse_isbn(page, url) ==
    IF page.has_isbn
    THEN LET r == Isbn_try_from(replace_with_empty(page.isbn_text, {"nbsp"}))
         IN  IF r.ok
             THEN FieldOk(r.val)
             ELSE FieldErr(<<Msg(<<"can't", "parse", "isbn">>, NoUrl)>>)
    ELSE FieldErr(<<Msg(<<"can't", "find", "isbn", "on", "this", "page">>,
                        NoUrl)>>)

\* the paragraphs joined with a line break
Eksmo_parse_description(descr) == FieldOk(join(descr, <<"\n">>))

\* EksmoParser::parse_book: the four steps of the default, then
\* parse_description, each followed by `?`
Eksmo_parse_book(url, f, page, descr) ==
    LET c1 == <<"fetch">>
        c2 == Append(c1, "parse_authors")
        c3 == Append(c2, "parse_title")
        c4 == Append(c3, "parse_isbn")
        c5 == Append(c4, "parse_description")
    IN  IF f.pc = "err"
        THEN After(c1, TaskErr("fetch", Fetch_error(f)))
        ELSE LET authors == Eksmo_parse_authors(page)
             IN  IF ~authors.ok
                 THEN After(c2, TaskErr("authors", authors.err))
                 ELSE LET title == Eksmo_parse_title(page)
                      IN  IF ~title.ok
                          THEN After(c3, TaskErr("title", title.err))
                          ELSE LET isbn == Eksmo_parse_isbn(page, url)
                               IN  IF ~isbn.ok
                                   THEN After(c4, TaskErr("isbn", isbn.err))
                                   ELSE LET description ==
                                                Eksmo_parse_description(descr)
                                        IN  IF ~description.ok
                                            THEN After(c5,
                                                     TaskErr("description",
                                                         description.err))
                                            ELSE After(c5,
                                                     TaskOk([site |-> "eksmo",
                                                       source |-> url,
                                                       authors |-> authors.val,
                                                       isbn |-> isbn.val,
                                                       title |-> title.val,
                                                       description |->
                                                         description.val]))

(***************************************************************************)
(* Inputs.                                                                 *)
(***************************************************************************)
UrlLabirintBook == <<"labirint", "books">>
UrlLabirintOther == <<"labirint", "invalid">>
UrlIgraSlov == <<"igraslov", "product">>
UrlEksmo == <<"eksmo", "book">>
UrlIgraSlovLabirint == <<"igraslov", "product", "labirint">>

\* what the IgraSlov sitemap can list: its own products, a page of a host no
\* parser knows, a product whose address mentions labirint
IgraSlovSideUrls == {UrlIgraSlov, UrlEksmo, UrlIgraSlovLabirint}

\* the Labirint list is filtered with contains("/books/")
LabirintSideUrls == {UrlLabirintBook}

SeqsUpTo(S, n) == UNION {[1..k -> S] : k \in 0..n}

\* the end-to-end example: five URLs, one of an unknown host
FiveIgraSlov == <<UrlIgraSlov, UrlEksmo, UrlIgraSlov>>
FiveLabirint == <<UrlLabirintBook, UrlLabirintBook>>

UrlLists ==
    {p \in SeqsUpTo(IgraSlovSideUrls, MaxUrls)
            \X SeqsUpTo(LabirintSideUrls, MaxUrls) :
        Len(p[1]) + Len(p[2]) <= MaxUrls}
    \cup {<<FiveIgraSlov, FiveLabirint>>}

\* what the Labirint sitemap can list before the "/books/" filter
LabirintSitemaps ==
    SeqsUpTo({UrlLabirintBook, UrlLabirintOther}, MaxUrls)

\* what one IgraSlov sitemap can list after the indicator filter
IgraSlovSitemaps ==
    SeqsUpTo(IgraSlovSideUrls, MaxUrls) \cup {FiveIgraSlov}

Dec(n) == <<Digits[n + 1]>>

\* command lines: none (the default concurrency), another concurrency, a
\* concurrency and a count per store; and lines with a value that is not a
\* number or is below 1, or with one value too many
ValidArgLists ==
    {<<>>} \cup {<<Dec(c)>> : c \in (1..MaxTasks) \ {DEFAULT_CONCURRENT_TASKS}}
           \cup {<<Dec(1), Dec(1)>>}

InvalidArgLists ==
    {<<Dec(0)>>, << <<"x">> >>, << <<"-", "1">> >>, << <<>> >>,
     <<Dec(1), Dec(0)>>, <<Dec(1), <<"x">> >>, << <<"x">>, Dec(1)>>,
     <<Dec(0), <<"x">>, Dec(1)>>, <<Dec(1), Dec(1), Dec(1)>>}

ArgLists == ValidArgLists \cup InvalidArgLists

\* an interleave whose closure has no or_else: it ends when the iterator
\* whose turn it is has nothing left
RECURSIVE interleave_from_NoFallback(_, _, _)
interleave_from_NoFallback(a, b, take_from_a) ==
    IF take_from_a
    THEN IF a # <<>>
         THEN <<Head(a)>> \o interleave_from_NoFallback(Tail(a), b, FALSE)
         ELSE <<>>
    ELSE IF b # <<>>
         THEN <<Head(b)>> \o interleave_from_NoFallback(a, Tail(b), TRUE)
         ELSE <<>>

\* interleave(a, b): from_fn with the take_from_a flag
RECURSIVE interleave_from(_, _, _)
interleave_from(a, b, take_from_a) ==
    IF a = <<>> /\ b = <<>>
    THEN <<>>
    ELSE IF take_from_a
    THEN IF a # <<>>
         THEN <<Head(a)>> \o interleave_from(Tail(a), b, ~take_from_a)
         ELSE <<Head(b)>> \o interleave_from(a, Tail(b), ~take_from_a)
    ELSE IF b # <<>>
         THEN <<Head(b)>> \o interleave_from(a, Tail(b), ~take_from_a)
         ELSE <<Head(a)>> \o interleave_from(Tail(a), b, ~take_from_a)

interleave(a, b) == interleave_from(a, b, TRUE)

\* sequences given to interleave on its own; the two share their elements
MergeInputs == SeqsUpTo({UrlIgraSlov, UrlLabirintBook}, MaxUrls)

\* what the servers answer during a scheduler run
SchedResponses == {NetErr, Resp(200, NoHeader), Resp(404, NoHeader),
                   Resp(503, NoHeader)}

Statuses == {200, 301, 404, 429, 503}

Headers == {NoHeader, Header(<<"3">>), Header(<<"2", "0">>),
            Header(<<"+", "3">>), Header(<<"x">>)}

\* what the server answers to a single fetch call
FetchResponses ==
    {NetErr} \cup {Resp(st, h) : st \in Statuses, h \in Headers}

IsbnGood ==
    <<"9", "7", "8", "-", "5", "-", "1", "7", "-", "1", "2", "3", "4", "5",
      "6", "-", "7">>

OneAuthor == << <<"L", ".", " ", "T">> >>

SomeTitle == << <<"W", "a", "r">> >>

SchedPages ==
    {Page(OneAuthor, SomeTitle, TRUE, IsbnGood),
     Page(OneAuthor, SomeTitle, TRUE, <<"1", "2", "3">>),
     Page(OneAuthor, SomeTitle, FALSE, <<>>)}

\* the URLs a request can be sent for
SiteUrls == {UrlLabirintBook, UrlIgraSlov}

\* what a server does for one URL: its answer to the first and to the second
\* request, whether the body can be read, the page.  A page with a book; an
\* overloaded server that recovers; a connection that fails, then a body
\* that cannot be read; a page without an ISBN.
Scripts ==
    {[resp |-> <<Resp(200, NoHeader), Resp(200, NoHeader)>>,
      body_ok |-> TRUE, page |-> Page(OneAuthor, SomeTitle, TRUE, IsbnGood)],
     [resp |-> <<Resp(503, NoHeader), Resp(200, NoHeader)>>,
      body_ok |-> TRUE, page |-> Page(OneAuthor, SomeTitle, TRUE, IsbnGood)],
     [resp |-> <<NetErr, Resp(200, NoHeader)>>,
      body_ok |-> FALSE, page |-> Page(OneAuthor, SomeTitle, TRUE, IsbnGood)],
     [resp |-> <<Resp(200, NoHeader), Resp(200, NoHeader)>>,
      body_ok |-> TRUE, page |-> Page(OneAuthor, SomeTitle, FALSE, <<>>)]}

Oracles == [SiteUrls -> Scripts]

DigitRun(n) == [i \in 1..n |-> Digits[(i % 10) + 1]]

WithSep(d, sep) ==
    IF sep = <<>> \/ Len(d) < 4
    THEN d
    ELSE SubSeq(d, 1, 3) \o sep \o SubSeq(d, 4, Len(d))

IsbnInputs ==
    {pre \o WithSep(DigitRun(n), sep) \o suf :
        n \in 0..MaxDigits,
        pre \in {<<>>, <<" ">>},
        sep \in {<<>>, <<"-">>, <<" ">>},
        suf \in {<<>>, <<" ">>, <<"X">>}}

\* the two candidates of the documented example; each has 13 digits
Isbn979 ==
    <<"9", "7", "9", "-", "0", "0", "0", "0", "0", "0", "0", "0", "0", "0">>

Isbn978 ==
    <<"9", "7", "8", "-", "0", "-", "1", "3", "-", "4", "6", "8", "5", "9",
      "9", "-", "1">>

ExampleGiven == Isbn979 \o <<",", " ">> \o Isbn978

ExampleOpposite == Isbn978 \o <<",", " ">> \o Isbn979

\* pieces a page may put between the separators: nothing, blanks, two texts
\* of 13 digits, two texts without 13 digits
TokenPieces ==
    {<<>>, <<" ">>, DigitRun(13), <<" ">> \o WithSep(DigitRun(13), <<"-">>),
     DigitRun(10), DigitRun(12) \o <<"X">>}

RECURSIVE JoinWith(_, _)
JoinWith(pieces, seps) ==
    IF Len(pieces) = 1
    THEN pieces[1]
    ELSE pieces[1] \o <<seps[1]>> \o JoinWith(Tail(pieces), Tail(seps))

MultiTokenInputs ==
    UNION {{JoinWith(ps, ss) : ps \in [1..k -> TokenPieces],
                               ss \in [1..(k - 1) -> {",", ";"}]} :
           k \in 1..MaxTokens}

ExtractInputs == IsbnInputs \cup MultiTokenInputs
                     \cup {ExampleGiven, ExampleOpposite}

\* the author nodes of a page: none, one, the two of the documented row, one
\* whose text holds the separator of the authors column
AOne == <<"A", ".", " ", "O", "n", "e">>

BTwo == <<"B", ".", " ", "T", "w", "o">>

AuthorNodes ==
    {<<>>, OneAuthor, <<AOne, BTwo>>, << <<"A", ";", " ", "B">> >>}

\* the title nodes: none, one, one with the leading underscore
TitleNodes == {<<>>, SomeTitle, << <<"_", "W", "a", "r">> >>}

\* the ISBN element: absent, or present with good text, with a no-break
\* space in it, with too few digits, with no text
IsbnNodes ==
    {[has |-> FALSE, text |-> <<>>], [has |-> TRUE, text |-> IsbnGood],
     [has |-> TRUE, text |-> <<"nbsp">> \o IsbnGood],
     [has |-> TRUE, text |-> <<"1", "2", "3">>],
     [has |-> TRUE, text |-> <<>>]}

ParsePages ==
    {Page(a, t, i.has, i.text) :
        a \in AuthorNodes, t \in TitleNodes, i \in IsbnNodes}

\* how a fetch that got one response can return
FetchReturns(cap, url) ==
    LET f0 == fetch(cap, url)
        after(r, body_ok) ==
            LET f1 == on_send(cap, f0, r)
            IN  IF f1.pc = "body" THEN on_body(cap, f1, body_ok) ELSE f1
    IN  IF f0.pc = "err"
        THEN {f0}
        ELSE {f \in {after(r, b) : r \in SchedResponses, b \in BOOLEAN} :
                 f.pc \in {"ok", "err"}}

ParseInputs ==
    UNION {{[cap |-> Dispatch(url), url |-> url, f |-> f, page |-> page] :
               f \in FetchReturns(Dispatch(url), url), page \in ParsePages} :
           url \in {UrlLabirintBook, UrlIgraSlov}}

\* how EksmoParser::fetch can return after one response
EksmoFetchReturns ==
    LET f0 == Eksmo_fetch(UrlEksmo)
        after(r, body_ok) ==
            LET f1 == Eksmo_on_send(f0, r)
            IN  IF f1.pc = "body" THEN Eksmo_on_body(f1, body_ok) ELSE f1
    IN  {after(r, b) : r \in SchedResponses, b \in BOOLEAN}

DescriptionNodes == {<<>>, << <<"A">>, <<"B">> >>}

\* what EksmoParser::parse_book works on: the return of its fetch, the page,
\* the paragraphs of the description
EksmoInputs ==
    {[cap |-> "EksmoParser", url |-> UrlEksmo, f |-> f, page |-> page,
      descr |-> d] :
        f \in EksmoFetchReturns, page \in ParsePages, d \in DescriptionNodes}

(***************************************************************************)
(* The OnceLock statics of a parser module: CLIENT and one cell per        *)
(* selector.  get_or_init returns the stored value if there is one;        *)
(* otherwise one caller runs the closure while any other caller of the     *)
(* same cell is blocked until the value is stored.                         *)
(***************************************************************************)
Caps == {"LabirintParser", "IgraSlov"}

\* the cells parse_book reaches, in the order of its steps
OnceCells == <<"CLIENT", "AUTHOR_SEL", "TITLE_SEL", "ISBN_SEL">>

OnceLock_new == [state |-> "empty", value |-> 0, inits |-> 0]

NoCells == [cap \in Caps |-> [n \in 1..Len(OnceCells) |-> OnceLock_new]]

\* a get_or_init that does not wait for a closure that is running
get_or_init_NoLock(cell) ==
    IF cell.state = "set" THEN "get" ELSE "init"

\* what a call of get_or_init does on a cell
get_or_init(cell) ==
    IF cell.state = "set" THEN "get"
    ELSE IF cell.state = "running" THEN "block"
    ELSE "init"

\* the closure's value is stored: only into a cell that has none
OnceLock_set(cell, value) ==
    IF cell.state = "set"
    THEN cell
    ELSE [state |-> "set", value |-> value, inits |-> cell.inits + 1]

\* a call of parse_book about to make its first step
NewCaller(cap) ==
    [cap |-> cap, step |-> 1, pc |-> "call",
     seen |-> [n \in 1..Len(OnceCells) |-> 0]]

\* the caller got `value` from the cell of its step and goes on
Got(c, value) ==
    [c EXCEPT !.seen[c.step] = value,
              !.pc = IF c.step = Len(OnceCells) THEN "returned" ELSE "call",
              !.step = IF c.step = Len(OnceCells) THEN @ ELSE @ + 1]

(***************************************************************************)
(* State.                                                                  *)
(***************************************************************************)
VARIABLES
    urls,              \* the interleaved URL sequence given to the stream
    concurrent_tasks,  \* the bound given to buffer_unordered
    next_url,          \* position of the next URL the stream yields
    in_progress,       \* the futures buffer_unordered is running
    books,             \* the collected results, in completion order
    counter,           \* the shared progress counter
    observed,          \* the values fetch_add returned, in completion order
    sent,              \* per URL position: HTTP requests sent for it
    disp,              \* per URL position: capabilities it was handed to
    phase,             \* "run", "tally", "done" or "failed"
    tally_i,           \* position of the tally loop in books
    success_count,
    error_count,
    wtr,               \* rows written to the CSV file after the header
    exit_err,          \* why main returned Err, "none" otherwise
    fc,                \* a fetch call made on its own
    ncalls,            \* how many such calls were made
    done_calls,        \* the fetch states the earlier calls ended in
    isbn_raw,          \* text given to the Isbn validator
    isbn_res,          \* what the validator returned
    argv,              \* std::env::args().skip(1)
    books_per_store,
    urls_labirint,     \* the Labirint URLs kept from its sitemap
    urls_igraslov,     \* the IgraSlov URLs read so far
    net,               \* the requests main itself has issued
    pin,               \* a parser's input: capability, URL, fetch, page
    pres,              \* what the parser returned
    prows,             \* the rows the tally loop wrote for that result
    cells,             \* the OnceLock statics of each parser module
    callers,           \* calls of parse_book that use those statics
    created,           \* how many clients and selectors were constructed
    merge_a,           \* the first sequence given to interleave
    merge_b,           \* the second sequence given to interleave
    merged,            \* what the iterator it returned yielded
    oracle             \* what each URL's server answers, when that is fixed

vars ==
    <<urls, concurrent_tasks, next_url, in_progress, books, counter, observed,
      sent, disp, phase, tally_i, success_count, error_count, wtr, exit_err,
      fc, ncalls, done_calls, isbn_raw, isbn_res, argv, books_per_store,
      urls_labirint, urls_igraslov, net, pin, pres, prows, cells, callers,
      created, merge_a, merge_b, merged, oracle>>

startup_vars == <<argv, books_per_store, urls_labirint, urls_igraslov, net>>

sched_vars ==
    <<urls, concurrent_tasks, next_url, in_progress, books, counter, observed,
      sent, disp, phase, tally_i, success_count, error_count, wtr, exit_err,
      startup_vars>>

fetch_vars == <<fc, ncalls, done_calls>>

isbn_vars == <<isbn_raw, isbn_res>>

parse_vars == <<pin, pres, prows>>

once_vars == <<cells, callers, created>>

merge_vars == <<merge_a, merge_b, merged>>

\* the variables only the checks of single functions use
unit_vars == <<once_vars, merge_vars, oracle>>

IsbnNone == [op |-> "none", ok |-> FALSE, val |-> <<>>]

ParseNone == [op |-> "none", r |-> FieldOk(<<>>)]

NoInput == [cap |-> "none", url |-> <<>>, f |-> FetchIdle, page |-> NoBook]

SchedIdle ==
    /\ urls = <<>>
    /\ concurrent_tasks = DEFAULT_CONCURRENT_TASKS
    /\ books_per_store = DEFAULT_BOOKS_PER_STORE
    /\ urls_labirint = <<>>
    /\ urls_igraslov = <<>>
    /\ net = <<>>
    /\ next_url = 1
    /\ in_progress = {}
    /\ books = <<>>
    /\ counter = 0
    /\ observed = <<>>
    /\ sent = <<>>
    /\ disp = <<>>
    /\ phase = "start"
    /\ tally_i = 1
    /\ success_count = 0
    /\ error_count = 0
    /\ wtr = <<>>
    /\ exit_err = "none"

FetchUnused == fc = FetchIdle /\ ncalls = 0 /\ done_calls = <<>>

IsbnUnused == isbn_raw = <<>> /\ isbn_res = IsbnNone

ParseUnused == pin = NoInput /\ pres = ParseNone /\ prows = <<>>

OnceUnused == cells = NoCells /\ callers = <<>> /\ created = 0

NotMerged == [done |-> FALSE, val |-> <<>>]

MergeUnused == merge_a = <<>> /\ merge_b = <<>> /\ merged = NotMerged

\* nothing is fixed about the servers: any answer can follow any request
NoOracle == <<>>

UnitsUnused == OnceUnused /\ MergeUnused /\ oracle = NoOracle

\* the answers a task can get to the request it awaits, the ways the read of
\* the body can end, the pages it can get
ResponsesFor(t) ==
    IF oracle = NoOracle
    THEN SchedResponses
    ELSE {oracle[urls[t.idx]].resp[t.f.attempt + 1]}

BodiesFor(t) ==
    IF oracle = NoOracle THEN BOOLEAN ELSE {oracle[urls[t.idx]].body_ok}

PagesFor(t) ==
    IF oracle = NoOracle THEN SchedPages ELSE {oracle[urls[t.idx]].page}

\* the process as main() is entered
Init ==
    /\ argv \in ArgLists
    /\ SchedIdle
    /\ FetchUnused
    /\ IsbnUnused
    /\ ParseUnused
    /\ UnitsUnused

(***************************************************************************)
(* The start of main().  Each action is what main does between two awaits. *)
(***************************************************************************)
Fail_AsArgument(why) == phase' = "failed" /\ exit_err' = "invalid_number"

\* main returns Err(..)
Fail(why) == phase' = "failed" /\ exit_err' = why

LabirintSitemapOutcomes == {"ok", "get_failed", "body_failed", "xml_failed"}

IgraSlovSitemapOutcomes ==
    {"ok", "get_failed", "status_failed", "body_failed", "loc_failed"}

\* init_tracing, the argument loop, and the request for the Labirint sitemap
Startup ==
    /\ phase = "start"
    /\ \E tracing_ok \in BOOLEAN :
          LET a == parse_args(argv)
          IN  IF ~tracing_ok
              THEN /\ Fail("logging")
                   /\ UNCHANGED <<concurrent_tasks, books_per_store, net>>
              ELSE IF ~a.ok
              THEN /\ Fail(a.err)
                   /\ UNCHANGED <<concurrent_tasks, books_per_store, net>>
              ELSE /\ concurrent_tasks' = a.concurrent_tasks
                   /\ books_per_store' = a.books_per_store
                   /\ net' = Append(net, "labirint_sitemap")
                   /\ phase' = "labirint_sitemap"
                   /\ UNCHANGED exit_err
    /\ UNCHANGED <<urls, next_url, in_progress, books, counter, observed,
                   sent, disp, tally_i, success_count, error_count, wtr,
                   argv, urls_labirint, urls_igraslov>>
    /\ UNCHANGED <<fetch_vars, isbn_vars, parse_vars, unit_vars>>

\* the Labirint sitemap arrives: its XML is read, books.csv is created and
\* the header written, the first IgraSlov sitemap is requested
LabirintSitemapDone ==
    /\ phase = "labirint_sitemap"
    /\ \E outcome \in LabirintSitemapOutcomes, raw \in LabirintSitemaps,
          create_ok \in BOOLEAN, headers_ok \in BOOLEAN :
          IF outcome # "ok"
          THEN /\ Fail("labirint_sitemap")
               /\ UNCHANGED <<wtr, urls_labirint, net>>
          ELSE IF ~create_ok
          THEN /\ Fail("csv_create")
               /\ UNCHANGED <<wtr, urls_labirint, net>>
          ELSE IF ~headers_ok
          THEN /\ Fail("csv_headers")
               /\ UNCHANGED <<wtr, urls_labirint, net>>
          ELSE /\ wtr' = <<BOOK_CSV_HEADERS>>
               /\ urls_labirint' = take(filter_books(raw), books_per_store)
               /\ net' = Append(net, "igraslov_sitemap_1")
               /\ phase' = "igraslov_sitemap"
               /\ UNCHANGED exit_err
    /\ UNCHANGED <<urls, concurrent_tasks, next_url, in_progress, books,
                   counter, observed, sent, disp, tally_i, success_count,
                   error_count, argv, books_per_store, urls_igraslov>>
    /\ UNCHANGED <<fetch_vars, isbn_vars, parse_vars, unit_vars>>

\* the URL lists stay within the bounds of the model
InBounds(read, more) ==
    \E p \in UrlLists :
       /\ p[2] = urls_labirint
       /\ IF more
          THEN IsPrefix(read, p[1])
          ELSE take(read, books_per_store) = p[1]

\* an IgraSlov sitemap arrives: either the second one is requested, or the
\* two lists are interleaved and the stream is built and polled
IgraSlovSitemapDone ==
    /\ phase = "igraslov_sitemap"
    /\ \E outcome \in IgraSlovSitemapOutcomes, part \in IgraSlovSitemaps :
          IF outcome # "ok"
          THEN /\ Fail("igraslov_sitemap")
               /\ UNCHANGED <<urls, sent, disp, urls_labirint, urls_igraslov,
                              net>>
          ELSE LET read == urls_igraslov \o part
                   more ==
                       /\ books_per_store > IGRASLOV_SECOND_SITEMAP_THRESHOLD
                       /\ net[Len(net)] = "igraslov_sitemap_1"
               IN  /\ InBounds(read, more)
                   /\ IF more
                      THEN /\ urls_igraslov' = read
                           /\ net' = Append(net, "igraslov_sitemap_2")
                           /\ UNCHANGED <<urls, sent, disp, urls_labirint,
                                          phase>>
                      ELSE LET all == interleave(take(read, books_per_store),
                                                 urls_labirint)
                           IN  /\ urls' = all
                               /\ sent' = [i \in 1..Len(all) |-> 0]
                               /\ disp' = [i \in 1..Len(all) |-> <<>>]
                               /\ urls_igraslov' = <<>>
                               /\ urls_labirint' = <<>>
                               /\ phase' = "run"
                               /\ UNCHANGED net
                   /\ UNCHANGED exit_err
    /\ UNCHANGED <<concurrent_tasks, next_url, in_progress, books, counter,
                   observed, tally_i, success_count, error_count, wtr, argv,
                   books_per_store>>
    /\ UNCHANGED <<fetch_vars, isbn_vars, parse_vars, unit_vars>>

(***************************************************************************)
(* Scheduler actions.  Each is what one poll does between two awaits.      *)
(***************************************************************************)
\* a task body that reads the position of its URL from the stream's cursor
\* when it completes, not from what it was started with
Complete_LatestUrl(idx, res) ==
    /\ counter' = FetchAdd(counter, 1)
    /\ observed' = Append(observed, counter)
    /\ books' = CollectResult(books, [idx |-> IF next_url - 1 < idx
                                               THEN idx ELSE next_url - 1,
                                      res |-> Outcome(res)])

\* the rest of the task body once parse_book has returned res: fetch_add,
\* the progress line, and the result handed to collect()
Complete(idx, res) ==
    /\ counter' = FetchAdd(counter, 1)
    /\ observed' = Append(observed, counter)
    /\ books' = CollectResult(books, [idx |-> idx, res |-> Outcome(res)])

\* anyhow!("Unknown bookstore domain in URL: {}", url)
Unknown_error(url) ==
    <<Msg(<<"Unknown", "bookstore", "domain", "in", "URL">>, url)>>

\* buffer_unordered takes the next URL and polls its future to its first await
Start ==
    /\ phase = "run"
    /\ next_url <= Len(urls)
    /\ CanStart(Cardinality(in_progress), concurrent_tasks)
    /\ LET idx == next_url
           url == urls[idx]
           cap == Dispatch(url)
       IN  /\ next_url' = idx + 1
           /\ IF cap = "none"
              THEN /\ Complete(idx, TaskErr("unknown_source",
                                             Unknown_error(url)))
                   /\ UNCHANGED <<in_progress, sent, disp>>
              ELSE LET f == fetch(cap, url)
                   IN  /\ disp' = [disp EXCEPT ![idx] = Append(@, cap)]
                       /\ sent' = [sent EXCEPT ![idx] = f.reqs]
                       /\ IF f.pc = "err"
                          THEN /\ Complete(idx, parse_book(cap, url, f, NoBook))
                               /\ UNCHANGED in_progress
                          ELSE /\ in_progress' = in_progress \cup
                                      {[idx |-> idx, cap |-> cap, f |-> f]}
                               /\ UNCHANGED <<books, counter, observed>>
    /\ UNCHANGED <<urls, concurrent_tasks, phase, tally_i, success_count,
                   error_count, wtr, exit_err>>
    /\ UNCHANGED <<startup_vars, fetch_vars, isbn_vars, parse_vars,
                   unit_vars>>

\* the send().await of task t completes with a response r
SendDoneOf(t) ==
    /\ phase = "run"
    /\ \E r \in ResponsesFor(t) :
          /\ t.f.pc = "send"
          /\ LET f == on_send(t.cap, t.f, r)
             IN  /\ sent' = [sent EXCEPT ![t.idx] = f.reqs]
                 /\ IF f.pc = "err"
                    THEN /\ Complete(t.idx,
                                     parse_book(t.cap, urls[t.idx], f, NoBook))
                         /\ in_progress' = in_progress \ {t}
                    ELSE /\ in_progress' =
                                (in_progress \ {t}) \cup {[t EXCEPT !.f = f]}
                         /\ UNCHANGED <<books, counter, observed>>
    /\ UNCHANGED <<urls, concurrent_tasks, next_url, disp, phase, tally_i,
                   success_count, error_count, wtr, exit_err>>
    /\ UNCHANGED <<startup_vars, fetch_vars, isbn_vars, parse_vars,
                   unit_vars>>

SendDone == \E t \in in_progress : SendDoneOf(t)

\* the backoff sleep of task t ends and the next attempt is sent
WakeOf(t) ==
    /\ phase = "run"
    /\ t.f.pc = "sleep"
    /\ LET f == Labirint_on_wake(t.f)
             IN  /\ sent' = [sent EXCEPT ![t.idx] = f.reqs]
                 /\ IF f.pc = "err"
                    THEN /\ Complete(t.idx,
                                     parse_book(t.cap, urls[t.idx], f, NoBook))
                         /\ in_progress' = in_progress \ {t}
                    ELSE /\ in_progress' =
                                (in_progress \ {t}) \cup {[t EXCEPT !.f = f]}
                         /\ UNCHANGED <<books, counter, observed>>
    /\ UNCHANGED <<urls, concurrent_tasks, next_url, disp, phase, tally_i,
                   success_count, error_count, wtr, exit_err>>
    /\ UNCHANGED <<startup_vars, fetch_vars, isbn_vars, parse_vars,
                   unit_vars>>

Wake == \E t \in in_progress : WakeOf(t)

\* the text().await of task t completes; the parsers run and the task ends
BodyDoneOf(t) ==
    /\ phase = "run"
    /\ \E body_ok \in BodiesFor(t), page \in PagesFor(t) :
          /\ t.f.pc = "body"
          /\ LET f == on_body(t.cap, t.f, body_ok)
             IN  /\ Complete(t.idx, parse_book(t.cap, urls[t.idx], f, page))
                 /\ in_progress' = in_progress \ {t}
    /\ UNCHANGED <<urls, concurrent_tasks, next_url, sent, disp, phase,
                   tally_i, success_count, error_count, wtr, exit_err>>
    /\ UNCHANGED <<startup_vars, fetch_vars, isbn_vars, parse_vars,
                   unit_vars>>

BodyDone == \E t \in in_progress : BodyDoneOf(t)

\* the stream is exhausted and nothing is in progress: collect() returns
Collected ==
    /\ phase = "run"
    /\ next_url > Len(urls)
    /\ in_progress = {}
    /\ phase' = "tally"
    /\ UNCHANGED <<urls, concurrent_tasks, next_url, in_progress, books,
                   counter, observed, sent, disp, tally_i, success_count,
                   error_count, wtr, exit_err>>
    /\ UNCHANGED <<startup_vars, fetch_vars, isbn_vars, parse_vars,
                   unit_vars>>

\* one iteration of `for book in books.iter()`
TallyStep ==
    /\ phase = "tally"
    /\ tally_i <= Len(books)
    /\ LET b == books[tally_i]
       IN  IF b.res.ok
           THEN \E write_ok \in BOOLEAN :
                  IF write_ok
                  THEN /\ wtr' = Append(wtr, write_csv_record(b.res.book))
                       /\ success_count' = success_count + 1
                       /\ tally_i' = tally_i + 1
                       /\ UNCHANGED <<error_count, phase, exit_err>>
                  ELSE /\ phase' = "failed"
                       /\ exit_err' = "csv_write"
                       /\ UNCHANGED <<wtr, success_count, error_count,
                                      tally_i>>
           ELSE /\ error_count' = error_count + 1
                /\ tally_i' = tally_i + 1
                /\ UNCHANGED <<wtr, success_count, phase, exit_err>>
    /\ UNCHANGED <<urls, concurrent_tasks, next_url, in_progress, books,
                   counter, observed, sent, disp>>
    /\ UNCHANGED <<startup_vars, fetch_vars, isbn_vars, parse_vars,
                   unit_vars>>

\* wtr.flush() and the final summary
Summary ==
    /\ phase = "tally"
    /\ tally_i > Len(books)
    /\ \E flush_ok \in BOOLEAN :
          IF flush_ok
          THEN phase' = "done" /\ UNCHANGED exit_err
          ELSE phase' = "failed" /\ exit_err' = "csv_flush"
    /\ UNCHANGED <<urls, concurrent_tasks, next_url, in_progress, books,
                   counter, observed, sent, disp, tally_i, success_count,
                   error_count, wtr>>
    /\ UNCHANGED <<startup_vars, fetch_vars, isbn_vars, parse_vars,
                   unit_vars>>

Next ==
    \/ Startup
    \/ LabirintSitemapDone
    \/ IgraSlovSitemapDone
    \/ Start
    \/ SendDone
    \/ Wake
    \/ BodyDone
    \/ Collected
    \/ TallyStep
    \/ Summary

Spec == Init /\ [][Next]_vars

\* the run when every await completes: the stream polls every future it
\* holds, a request or a sleep that is awaited completes, and main goes on
\* once collect() has returned
Fairness ==
    /\ WF_vars(Start)
    /\ WF_vars(SendDone)
    /\ WF_vars(Wake)
    /\ WF_vars(BodyDone)
    /\ WF_vars(Collected)
    /\ WF_vars(TallyStep)
    /\ WF_vars(Summary)

\* command lines for the runs whose completion is checked: every concurrency
\* bound, two books per store
LiveArgLists == {<<Dec(c), Dec(2)>> : c \in 1..MaxTasks}

InitLive ==
    /\ argv \in LiveArgLists
    /\ SchedIdle
    /\ FetchUnused
    /\ IsbnUnused
    /\ ParseUnused
    /\ UnitsUnused

FairSpec == InitLive /\ [][Next]_vars /\ Fairness

\* the run when what each URL's server answers is fixed beforehand
InitFixed ==
    /\ argv \in LiveArgLists
    /\ SchedIdle
    /\ FetchUnused
    /\ IsbnUnused
    /\ ParseUnused
    /\ OnceUnused
    /\ MergeUnused
    /\ oracle \in Oracles

SpecFixed == InitFixed /\ [][Next]_vars

(***************************************************************************)
(* LabirintParser::fetch called on its own, one call after another.        *)
(***************************************************************************)
NoRun == argv = <<>> /\ SchedIdle

InitFetch ==
    NoRun /\ FetchUnused /\ IsbnUnused /\ ParseUnused /\ UnitsUnused

CallSummary(f) == [reqs |-> f.reqs, sleeps |-> f.sleeps]

\* a new call of fetch(&url); the previous one has returned
FetchCall ==
    /\ fc.pc \in {"idle", "ok", "err"}
    /\ ncalls < MaxCalls
    /\ \E url \in {UrlLabirintBook, UrlLabirintOther} :
          fc' = Labirint_fetch(url)
    /\ ncalls' = ncalls + 1
    /\ done_calls' =
          IF fc.pc = "idle" THEN done_calls
          ELSE Append(done_calls, CallSummary(fc))
    /\ UNCHANGED <<sched_vars, isbn_vars, parse_vars, unit_vars>>

FetchSendDone ==
    /\ fc.pc = "send"
    /\ \E r \in FetchResponses : fc' = Labirint_on_send(fc, r)
    /\ UNCHANGED <<ncalls, done_calls, sched_vars, isbn_vars, parse_vars,
                   unit_vars>>

FetchWake ==
    /\ fc.pc = "sleep"
    /\ fc' = Labirint_on_wake(fc)
    /\ UNCHANGED <<ncalls, done_calls, sched_vars, isbn_vars, parse_vars,
                   unit_vars>>

FetchBodyDone ==
    /\ fc.pc = "body"
    /\ \E body_ok \in BOOLEAN : fc' = Labirint_on_body(fc, body_ok)
    /\ UNCHANGED <<ncalls, done_calls, sched_vars, isbn_vars, parse_vars,
                   unit_vars>>

NextFetch ==
    \/ FetchCall
    \/ FetchSendDone
    \/ FetchWake
    \/ FetchBodyDone

SpecFetch == InitFetch /\ [][NextFetch]_vars

(***************************************************************************)
(* The Isbn validator applied to raw text.                                 *)
(***************************************************************************)
InitIsbn ==
    /\ NoRun
    /\ FetchUnused
    /\ ParseUnused
    /\ UnitsUnused
    /\ isbn_raw \in ExtractInputs
    /\ isbn_res = IsbnNone

Tagged(op, r) == [op |-> op, ok |-> r.ok, val |-> r.val]

IsbnNew ==
    /\ isbn_res.op = "none"
    /\ isbn_res' = Tagged("new", Isbn_new(isbn_raw))
    /\ UNCHANGED <<isbn_raw, sched_vars, fetch_vars, parse_vars,
                   unit_vars>>

IsbnTryFrom ==
    /\ isbn_res.op = "none"
    /\ isbn_res' = Tagged("try_from", Isbn_try_from(isbn_raw))
    /\ UNCHANGED <<isbn_raw, sched_vars, fetch_vars, parse_vars,
                   unit_vars>>

NextIsbn ==
    \/ IsbnNew
    \/ IsbnTryFrom

SpecIsbn == InitIsbn /\ [][NextIsbn]_vars

(***************************************************************************)
(* The parsers of one capability applied to one page, and what the tally   *)
(* loop does with the Result of parse_book.                                 *)
(***************************************************************************)
InitParse ==
    /\ NoRun
    /\ FetchUnused
    /\ IsbnUnused
    /\ UnitsUnused
    /\ pin \in ParseInputs \cup EksmoInputs
    /\ pres = ParseNone
    /\ prows = <<>>

Returned(op, r) ==
    /\ pres.op = "none"
    /\ pres' = [op |-> op, r |-> r]
    /\ UNCHANGED <<pin, prows, sched_vars, fetch_vars, isbn_vars,
                   unit_vars>>

ParseAuthors ==
    /\ pin.cap # "EksmoParser"
    /\ pin.f.pc = "ok"
    /\ Returned("parse_authors", parse_authors(pin.cap, pin.page))

ParseTitle ==
    /\ pin.cap # "EksmoParser"
    /\ pin.f.pc = "ok"
    /\ Returned("parse_title", parse_title(pin.cap, pin.page))

ParseIsbn ==
    /\ pin.cap # "EksmoParser"
    /\ pin.f.pc = "ok"
    /\ Returned("parse_isbn", parse_isbn(pin.cap, pin.page, pin.url))

ParseBook ==
    /\ pin.cap # "EksmoParser"
    /\ Returned("parse_book", parse_book(pin.cap, pin.url, pin.f, pin.page))

\* EksmoParser::parse_book; nothing in main tallies its Result
EksmoParseBook ==
    /\ pin.cap = "EksmoParser"
    /\ Returned("eksmo_parse_book",
                Eksmo_parse_book(pin.url, pin.f, pin.page, pin.descr))

\* the match on the Result in the tally loop, the write succeeding
TallyResult ==
    /\ pres.op = "parse_book"
    /\ pres' = [pres EXCEPT !.op = "tallied"]
    /\ prows' = IF pres.r.ok
                THEN Append(prows, write_csv_record(pres.r.book))
                ELSE prows
    /\ UNCHANGED <<pin, sched_vars, fetch_vars, isbn_vars, unit_vars>>

NextParse ==
    \/ ParseAuthors
    \/ ParseTitle
    \/ ParseIsbn
    \/ ParseBook
    \/ EksmoParseBook
    \/ TallyResult

SpecParse == InitParse /\ [][NextParse]_vars

(***************************************************************************)
(* Concurrent calls of parse_book and the statics they share.  A caller    *)
(* is a test thread or a task; each step of parse_book first takes its     *)
(* client or selector from the module's cell.                              *)
(***************************************************************************)
InitOnce ==
    /\ NoRun
    /\ FetchUnused
    /\ IsbnUnused
    /\ ParseUnused
    /\ MergeUnused
    /\ oracle = NoOracle
    /\ cells = NoCells
    /\ callers \in [1..MaxTasks -> {NewCaller(cap) : cap \in Caps}]
    /\ created = 0

OnceStep(t, cell, c) ==
    /\ callers' = [callers EXCEPT ![t] = c]
    /\ cells' = [cells EXCEPT ![callers[t].cap][callers[t].step] = cell]
    /\ UNCHANGED <<sched_vars, fetch_vars, isbn_vars, parse_vars,
                   merge_vars, oracle>>

\* CELL.get_or_init(..): the value is there, or the closure starts
OnceEnter ==
    \E t \in DOMAIN callers :
        LET c == callers[t]
            cell == cells[c.cap][c.step]
        IN  /\ c.pc = "call"
            /\ get_or_init(cell) # "block"
            /\ IF get_or_init(cell) = "get"
               THEN OnceStep(t, cell, Got(c, cell.value))
               ELSE OnceStep(t, [cell EXCEPT !.state = "running"],
                             [c EXCEPT !.pc = "init"])
            /\ UNCHANGED created

\* the closure returns a new client or selector, which is stored
OnceInitDone ==
    \E t \in DOMAIN callers :
        LET c == callers[t]
            cell == OnceLock_set(cells[c.cap][c.step], created + 1)
        IN  /\ c.pc = "init"
            /\ created' = created + 1
            /\ OnceStep(t, cell, Got(c, cell.value))

\* .expect(..) in the closure of CLIENT panics: the builder failed.  The
\* cell stays empty and the caller is gone.
OncePanic ==
    \E t \in DOMAIN callers :
        LET c == callers[t]
        IN  /\ c.pc = "init"
            /\ OnceCells[c.step] = "CLIENT"
            /\ OnceStep(t, OnceLock_new, [c EXCEPT !.pc = "panicked"])
            /\ UNCHANGED created

\* parse_book returns before its next step: LabirintParser::fetch rejected
\* the URL before it took the client, or fetch returned an Err
OnceReturn ==
    \E t \in DOMAIN callers :
        LET c == callers[t]
        IN  /\ c.pc = "call"
            /\ \/ c.step = 1 /\ c.cap = "LabirintParser"
               \/ c.step = 2
            /\ OnceStep(t, cells[c.cap][c.step], [c EXCEPT !.pc = "returned"])
            /\ UNCHANGED created

NextOnce ==
    \/ OnceEnter
    \/ OnceInitDone
    \/ OncePanic
    \/ OnceReturn

SpecOnce == InitOnce /\ [][NextOnce]_vars

(***************************************************************************)
(* interleave applied to two sequences, the iterator it returns read to    *)
(* its end.                                                                *)
(***************************************************************************)
InitMerge ==
    /\ NoRun
    /\ FetchUnused
    /\ IsbnUnused
    /\ ParseUnused
    /\ OnceUnused
    /\ oracle = NoOracle
    /\ merge_a \in MergeInputs
    /\ merge_b \in MergeInputs
    /\ merged = NotMerged

Interleave ==
    /\ ~merged.done
    /\ merged' = [done |-> TRUE, val |-> interleave(merge_a, merge_b)]
    /\ UNCHANGED <<merge_a, merge_b, sched_vars, fetch_vars, isbn_vars,
                   parse_vars, once_vars, oracle>>

NextMerge == Interleave

SpecMerge == InitMerge /\ [][NextMerge]_vars

(***************************************************************************)
(* Properties.                                                             *)
(***************************************************************************)
Count(S) == Cardinality(S)

Positions == 1..Len(urls)

ResultsOf(i) == {k \in 1..Len(books) : books[k].idx = i}

StageCount(stage) ==
    Count({k \in 1..Len(books) :
              ~books[k].res.ok /\ books[k].res.stage = stage})

\* C1: in every reachable state of a scheduler run, the tasks that have
\* started parse_record and have not completed (suspended in a request, in a
\* backoff sleep or in reading the body) number at most the concurrency bound.
C1_InFlightBounded ==
    /\ Count(in_progress) <= concurrent_tasks
    /\ \A t \in in_progress : t.f.pc \in {"send", "sleep", "body"}
    /\ \A i \in Positions :
          (i < next_url /\ ResultsOf(i) = {})
              => \E t \in in_progress : t.idx = i

C1_Witness ==
    /\ concurrent_tasks = 2
    /\ Count(in_progress) = 2
    /\ next_url <= Len(urls)
    /\ \E t \in in_progress : t.f.pc = "sleep"

ArgumentErrors == {"invalid_number", "below_one", "too_many_arguments"}

StartupErrors ==
    ArgumentErrors \cup {"logging", "labirint_sitemap", "csv_create",
                         "csv_headers", "igraslov_sitemap"}

\* C2: no URL's failure (fetch, field or unknown source) aborts the run: once
\* collect() has returned there is exactly one result per input URL, and the
\* summary is reached with success_count + error_count equal to the number of
\* input URLs, also when every URL failed.  Once the stream is built main
\* returns early only when writing a successful record, or flushing, fails.
C2_CompleteTally ==
    /\ phase # "run" =>
          /\ Len(books) = Len(urls)
          /\ \A i \in Positions : Count(ResultsOf(i)) = 1
    /\ phase = "done" =>
          /\ success_count + error_count = Len(urls)
          /\ success_count = Count({k \in 1..Len(books) : books[k].res.ok})
          /\ error_count = Count({k \in 1..Len(books) : ~books[k].res.ok})
    /\ phase = "failed" =>
          \/ exit_err \in StartupErrors /\ urls = <<>> /\ books = <<>>
          \/ exit_err = "csv_flush" /\ tally_i = Len(books) + 1
          \/ exit_err = "csv_write" /\ books[tally_i].res.ok

C2_Witness ==
    /\ phase = "done"
    /\ Len(urls) = 3
    /\ success_count = 0
    /\ error_count = 3
    /\ StageCount("fetch") = 1
    /\ StageCount("isbn") = 1
    /\ StageCount("unknown_source") = 1

UnknownUrl(u) == ~contains(u, "labirint") /\ ~contains(u, "igraslov")

\* C3: a URL that contains neither "labirint" nor "igraslov" fails with the
\* unknown-source error and no request is ever sent for it; every other URL
\* occurrence is handed exactly once to the parser of the source it matches
\* ("labirint" is looked for first); so after the run the unknown-source
\* failures number the unmatched URLs and the dispatches the matched ones
\* (1 and 4 for the five-URL example).
C3_Dispatch ==
    /\ \A i \in Positions :
          LET u == urls[i]
          IN  /\ i >= next_url => disp[i] = <<>> /\ sent[i] = 0
              /\ (i < next_url /\ UnknownUrl(u)) =>
                    /\ disp[i] = <<>>
                    /\ sent[i] = 0
                    /\ \E k \in ResultsOf(i) :
                          /\ ~books[k].res.ok
                          /\ books[k].res.stage = "unknown_source"
              /\ (i < next_url /\ contains(u, "labirint")) =>
                    disp[i] = <<"LabirintParser">>
              /\ (i < next_url /\ ~contains(u, "labirint")
                                /\ contains(u, "igraslov")) =>
                    disp[i] = <<"IgraSlov">>
    /\ phase # "run" =>
          /\ StageCount("unknown_source") =
                Count({i \in Positions : UnknownUrl(urls[i])})
          /\ SumSeq([i \in Positions |-> Len(disp[i])]) =
                Count({i \in Positions : ~UnknownUrl(urls[i])})

C3_Witness ==
    /\ phase = "done"
    /\ concurrent_tasks = 2
    /\ Len(urls) = 5
    /\ StageCount("unknown_source") = 1
    /\ SumSeq([i \in Positions |-> Len(disp[i])]) = 4
    /\ \E i, j \in Positions : i # j /\ urls[i] = urls[j] /\ sent[i] # sent[j]

\* C4: every completed task adds exactly one to the progress counter and no
\* update is lost: the values fetch_add returned are 0, 1, 2, ... in
\* completion order (so they are pairwise distinct and the counter never
\* decreases), the counter equals the number of completed tasks, and once all
\* tasks have finished it equals the number of input URLs.
C4_Counter ==
    /\ counter = Len(observed)
    /\ Len(observed) = Len(books)
    /\ \A i, j \in 1..Len(observed) : i < j => observed[i] < observed[j]
    /\ \A i \in 1..Len(observed) : observed[i] < counter
    /\ phase # "run" => counter = Len(urls)

C4_Witness ==
    /\ phase = "tally"
    /\ concurrent_tasks = 2
    /\ counter = 3
    /\ books[1].idx = 2
    /\ books[1].res.stage = "isbn"
    /\ books[2].res.ok
    /\ books[3].res.stage = "unknown_source"

\* C5: one call of the retrying fetch sends at most MAX_RETRIES + 1 requests
\* and sleeps at most MAX_RETRIES times, and its attempt index counts the
\* requests of this call only: a request is sent at attempt = number of
\* requests this call has already had answered, so the first one of every
\* call is sent at attempt 0 whatever the earlier calls did.
C5_BoundedAttempts ==
    /\ fc.reqs <= MAX_RETRIES + 1
    /\ fc.sleeps <= MAX_RETRIES
    /\ Len(fc.waits) = fc.sleeps
    /\ fc.reqs = Len(fc.hist) + (IF fc.pc = "send" THEN 1 ELSE 0)
    /\ fc.pc = "send" => fc.attempt = Len(fc.hist)
    /\ \A k \in 1..Len(done_calls) :
          /\ done_calls[k].reqs <= MAX_RETRIES + 1
          /\ done_calls[k].sleeps <= MAX_RETRIES

C5_Witness ==
    /\ ncalls = 2
    /\ done_calls = <<[reqs |-> MAX_RETRIES + 1, sleeps |-> MAX_RETRIES]>>
    /\ fc.pc = "err"
    /\ fc.reqs = MAX_RETRIES + 1
    /\ fc.sleeps = MAX_RETRIES
    /\ fc.hist[1] = NetErr
    /\ fc.hist[2] = NetErr

TerminalClientStatus(st) == st \in 400..499 /\ st # 429

\* C6: when the first response of a retrying fetch has a 4xx status other
\* than 429, the call has made exactly one attempt and has returned the
\* status error at once: no sleep, no second request.
C6_ClientErrorIsTerminal ==
    (/\ fc.hist # <<>>
     /\ fc.hist[1].kind = "resp"
     /\ TerminalClientStatus(fc.hist[1].status))
        => /\ fc.pc = "err"
           /\ fc.err = [kind |-> "status", status |-> fc.hist[1].status]
           /\ fc.reqs = 1
           /\ Len(fc.hist) = 1
           /\ fc.sleeps = 0
           /\ fc.waits = <<>>

C6_Witness ==
    /\ fc.hist = <<Resp(404, Header(<<"3">>))>>
    /\ fc.pc = "err"
    /\ fc.reqs = 1
    /\ fc.sleeps = 0

RetryableFailure(r) ==
    \/ r.kind = "neterr"
    \/ r.kind = "resp" /\ (r.status = 429 \/ r.status \in 500..599)

\* retryable failures followed by a 2xx within MAX_RETRIES retries
RetryThenSuccess(h) ==
    /\ Len(h) >= 2
    /\ Len(h) - 1 <= MAX_RETRIES
    /\ h[Len(h)].kind = "resp"
    /\ h[Len(h)].status \in 200..299
    /\ \A j \in 1..(Len(h) - 1) : RetryableFailure(h[j])

Schedule(a) == IF 2^a < 8 THEN 2^a ELSE 8

\* C7 as stated: after retryable failures followed by a 2xx the call returns
\* the 2xx body, sends nothing after the 2xx, and each wait is the schedule
\* value, replaced by the retry-after value whenever the server supplied one.
C7_AsStated ==
    RetryThenSuccess(fc.hist) =>
        /\ fc.reqs = Len(fc.hist)
        /\ fc.pc \in {"body", "ok"}
        /\ Len(fc.waits) = Len(fc.hist) - 1
        /\ \A j \in 1..(Len(fc.hist) - 1) :
              LET r == fc.hist[j]
              IN  IF r.kind = "resp" /\ r.retry_after.present
                  THEN /\ parse_u64(r.retry_after.text).some
                       /\ fc.waits[j] = parse_u64(r.retry_after.text).val
                  ELSE fc.waits[j] = Schedule(j - 1)

\* C7 amended: after retryable failures followed by a 2xx the call sends
\* nothing after the 2xx and returns the context made of that 2xx body, or
\* the body-read error when the body cannot be read; each wait is the
\* schedule value min(2^attempt, 8), replaced by the Retry-After value of a
\* 429/5xx response only when that header parses as an unsigned integer.
C7_RetryThenSuccess ==
    RetryThenSuccess(fc.hist) =>
        /\ fc.reqs = Len(fc.hist)
        /\ \/ fc.pc = "body"
           \/ fc.pc = "ok" /\ fc.ctx = Len(fc.hist)
           \/ fc.pc = "err" /\ fc.err.kind = "body"
        /\ Len(fc.waits) = Len(fc.hist) - 1
        /\ \A j \in 1..(Len(fc.hist) - 1) :
              LET r == fc.hist[j]
              IN  IF /\ r.kind = "resp"
                     /\ r.retry_after.present
                     /\ parse_u64(r.retry_after.text).some
                  THEN fc.waits[j] = parse_u64(r.retry_after.text).val
                  ELSE fc.waits[j] = Schedule(j - 1)

C7_Witness ==
    /\ fc.hist = <<Resp(429, Header(<<"2", "0">>)), Resp(200, NoHeader)>>
    /\ fc.pc = "ok"
    /\ fc.reqs = 2
    /\ SumSeq(fc.waits) = 20

\* every attempt of the call failed with a retryable cause
Exhausted(h) ==
    /\ Len(h) = MAX_RETRIES + 1
    /\ \A j \in 1..Len(h) : RetryableFailure(h[j])

LastResponse(h) ==
    h[CHOOSE j \in 1..Len(h) :
          /\ h[j].kind = "resp"
          /\ \A k \in (j + 1)..Len(h) : h[k].kind # "resp"]

\* C8: when a retrying fetch has exhausted its retries, the error it returns
\* reports the last HTTP status received in that call if any attempt of the
\* call received a response, and the network error only when none did.
C8_MostSpecificError ==
    Exhausted(fc.hist) =>
        /\ fc.pc = "err"
        /\ IF \E j \in 1..Len(fc.hist) : fc.hist[j].kind = "resp"
           THEN /\ fc.err.kind \in {"status", "status_after_retries"}
                /\ fc.err.status = LastResponse(fc.hist).status
           ELSE fc.err.kind = "network_after_retries"

C8_Witness ==
    /\ fc.hist = <<Resp(503, NoHeader), NetErr>>
    /\ fc.pc = "err"
    /\ fc.err = [kind |-> "status_after_retries", status |-> 503]

StripSeparators(s) == SelectSeq(s, LAMBDA c : c # "-" /\ c # " ")

\* C9: for raw text whose characters other than '-' and ' ' are all digits
\* and number exactly 10 or 13, Isbn::new succeeds and as_str() gives back
\* the raw text unchanged, separators included.
C9_ValidKeepsOriginal ==
    (/\ isbn_res.op = "new"
     /\ all_digits(StripSeparators(isbn_raw))
     /\ Len(StripSeparators(isbn_raw)) \in {10, 13})
        => /\ isbn_res.ok
           /\ Isbn_as_str(isbn_res) = isbn_raw

C9_Witness ==
    /\ isbn_res.op = "new"
    /\ isbn_res.ok
    /\ Len(StripSeparators(isbn_raw)) = 13
    /\ Len(isbn_raw) = 16
    /\ isbn_raw[1] = " "
    /\ isbn_raw[5] = "-"
    /\ Isbn_as_str(isbn_res) = isbn_raw

\* C10: for raw text whose digit count after removing '-' and ' ' is neither
\* 10 nor 13, Isbn::new fails; so every Isbn has exactly 10 or 13 digits.
C10_OnlyTenOrThirteen ==
    isbn_res.op = "new" =>
        /\ count_digits(StripSeparators(isbn_raw)) \notin {10, 13}
              => ~isbn_res.ok
        /\ isbn_res.ok => count_digits(Isbn_as_str(isbn_res)) \in {10, 13}

ExampleTexts == {ExampleGiven, ExampleOpposite}

\* C11 as stated: for the raw text "979-0000000000, 978-0-13-468599-1" and
\* for the same two tokens in the opposite order, extraction selects
\* 978-0-13-468599-1.
C11_AsStated ==
    (isbn_res.op = "try_from" /\ isbn_raw \in ExampleTexts)
        => isbn_res.ok /\ Isbn_as_str(isbn_res) = Isbn978

\* C11: both tokens of the example have 13 digits, so extraction selects
\* whichever of them comes first: 979-0000000000 for the text as given and
\* 978-0-13-468599-1 for the opposite order.
C11_FirstOfTwoThirteen ==
    /\ count_digits(Isbn979) = 13
    /\ count_digits(Isbn978) = 13
    /\ isbn_res.op = "try_from" =>
          /\ isbn_raw = ExampleGiven
                => isbn_res.ok /\ Isbn_as_str(isbn_res) = Isbn979
          /\ isbn_raw = ExampleOpposite
                => isbn_res.ok /\ Isbn_as_str(isbn_res) = Isbn978

C11_Witness ==
    /\ isbn_res.op = "try_from"
    /\ isbn_raw = ExampleGiven
    /\ isbn_res.ok
    /\ Isbn_as_str(isbn_res) = Isbn979

Fetched(i) == i.f.pc = "ok"

AllFieldsOk(i) ==
    /\ parse_authors(i.cap, i.page).ok
    /\ parse_title(i.cap, i.page).ok
    /\ parse_isbn(i.cap, i.page, i.url).ok

\* C12: parse_book returns a Book only if the fetch succeeded and the authors,
\* title and isbn parsers all returned success for that URL, and then the Book
\* carries exactly those three values; in every other case it returns an
\* error that carries no Book, and the tally loop writes no row for it.
C12_RecordOnlyIfComplete ==
    /\ pres.op \in {"parse_book", "tallied"} =>
          /\ pres.r.ok <=> (Fetched(pin) /\ AllFieldsOk(pin))
          /\ pres.r.ok =>
                pres.r.book =
                    [site |-> Site(pin.cap), source |-> pin.url,
                     authors |-> parse_authors(pin.cap, pin.page).val,
                     isbn |-> parse_isbn(pin.cap, pin.page, pin.url).val,
                     title |-> parse_title(pin.cap, pin.page).val]
          /\ ~pres.r.ok => pres.r.book = NoBook /\ pres.r.err # <<>>
    /\ prows # <<>> =>
          /\ pres.op = "tallied"
          /\ pres.r.ok
          /\ prows = <<write_csv_record(pres.r.book)>>

C12_Witness ==
    /\ pres.op = "tallied"
    /\ Fetched(pin)
    /\ pin.page.authors # <<>>
    /\ pin.page.title # <<>>
    /\ ~parse_isbn(pin.cap, pin.page, pin.url).ok
    /\ ~pres.r.ok
    /\ pres.r.stage = "isbn"
    /\ prows = <<>>

FieldWords(field) == IF field = "isbn" THEN {"isbn", "ISBN"} ELSE {field}

NamesField(err, field) ==
    \E i \in 1..Len(err) :
       \E j \in 1..Len(err[i].words) : err[i].words[j] \in FieldWords(field)

NamesUrl(err, url) == \E i \in 1..Len(err) : err[i].url = url

FieldStages == {"authors", "title", "isbn"}

\* C13: for every source, when a field parser fails during parse_book, the
\* error parse_book returns names the field that failed and the URL that was
\* being processed.
C13_NamesFieldAndUrl ==
    (/\ pres.op = "parse_book"
     /\ ~pres.r.ok
     /\ pres.r.stage \in FieldStages)
        => /\ NamesField(pres.r.err, pres.r.stage)
           /\ NamesUrl(pres.r.err, pin.url)

SelectorMatchesNothing(op, page) ==
    \/ op = "parse_authors" /\ page.authors = <<>>
    \/ op = "parse_title" /\ page.title = <<>>
    \/ op = "parse_isbn" /\ ~page.has_isbn

PresentButInvalid(op, page) ==
    /\ op = "parse_isbn"
    /\ page.has_isbn
    /\ ~Isbn_try_from(replace_with_empty(page.isbn_text, {"nbsp"})).ok

\* C14: for every capability and each of parse_authors, parse_title and
\* parse_isbn, the parser returns an error when the field's selector matches
\* no element of the page, and an error when the value is present but fails
\* validation.
C14_MissingOrInvalidIsError ==
    pres.op \in {"parse_authors", "parse_title", "parse_isbn"} =>
        /\ SelectorMatchesNothing(pres.op, pin.page) => ~pres.r.ok
        /\ PresentButInvalid(pres.op, pin.page) => ~pres.r.ok

IsNumber(t) == t # <<>> /\ all_digits(t)

\* one of the two positional arguments is not a number or is below 1
InvalidPositional(args) ==
    \E i \in 1..Min(2, Len(args)) :
       ~IsNumber(args[i]) \/ DecimalValue(args[i]) < 1

NothingProcessed ==
    /\ net = <<>>
    /\ urls = <<>>
    /\ next_url = 1
    /\ in_progress = {}
    /\ books = <<>>
    /\ wtr = <<>>

\* C15: when the concurrency or the count per store given on the command line
\* is not a number or is below 1, main returns an error (of the argument, or
\* of the logging set-up that precedes the argument loop) without having
\* issued any request, sitemap or page, and without having processed any URL.
C15_InvalidArgumentFailsFirst ==
    InvalidPositional(argv) =>
        /\ NothingProcessed
        /\ phase \in {"start", "failed"}
        /\ phase = "failed" =>
              exit_err \in {"invalid_number", "below_one", "logging"}

C15_Witness ==
    /\ argv = <<Dec(1), Dec(0)>>
    /\ phase = "failed"
    /\ exit_err = "below_one"
    /\ NothingProcessed

\* C16 as stated: leaving aside the logging set-up, an invalid command-line
\* argument is the only failure that ends the run with an error, and only
\* before any request is made; nothing that fails after argument parsing
\* (URL supply, fetch, field parsing, result writing) does.
C16_AsStated ==
    (phase = "failed" /\ exit_err # "logging") =>
        /\ exit_err \in ArgumentErrors
        /\ NothingProcessed

WriteErrors == {"csv_write", "csv_flush"}

\* C16: main returns an error for an invalid command line (before any request
\* is made and any URL processed), and also when the logging set-up fails,
\* when a sitemap cannot be fetched or read, when books.csv cannot be created
\* or its header written (all before any URL is processed), and when writing
\* a successful record or flushing the file fails; no failure of a single URL
\* (fetch, field parsing, unknown source) ends the run with an error.
C16_FatalFailures ==
    /\ phase = "failed" <=> exit_err # "none"
    /\ exit_err \in {"none"} \cup StartupErrors \cup WriteErrors
    /\ exit_err \in ArgumentErrors =>
          NothingProcessed /\ ~parse_args(argv).ok
    /\ exit_err = "logging" => NothingProcessed
    /\ exit_err \in {"labirint_sitemap", "csv_create", "csv_headers"} =>
          net = <<"labirint_sitemap">> /\ urls = <<>> /\ books = <<>>
    /\ exit_err = "igraslov_sitemap" =>
          /\ Len(net) \in {2, 3}
          /\ urls = <<>>
          /\ books = <<>>
    /\ exit_err = "csv_write" =>
          /\ Len(books) = Len(urls)
          /\ tally_i \in 1..Len(books)
          /\ books[tally_i].res.ok
    /\ exit_err = "csv_flush" =>
          /\ Len(books) = Len(urls)
          /\ tally_i = Len(books) + 1
    /\ \A k \in 1..Len(books) :
          (~books[k].res.ok /\ k < tally_i) => error_count >= 1

C16_Witness ==
    /\ phase = "failed"
    /\ exit_err = "igraslov_sitemap"
    /\ net = <<"labirint_sitemap", "igraslov_sitemap_1", "igraslov_sitemap_2">>
    /\ urls_igraslov # <<>>

RECURSIVE OkRows(_)
OkRows(bs) ==
    IF bs = <<>> THEN <<>>
    ELSE IF Head(bs).res.ok
    THEN << <<Site(Dispatch(urls[Head(bs).idx])), urls[Head(bs).idx],
              Head(bs).res.book.isbn, Head(bs).res.book.title,
              join(Head(bs).res.book.authors, <<";", " ">>)>> >>
             \o OkRows(Tail(bs))
    ELSE OkRows(Tail(bs))

\* C17: once the stream is built the file holds the header row followed by
\* one row for each successful result the tally loop has passed, in order,
\* and no row for a failed URL; so after a run the data rows number the
\* reported success count and the reported error count is the number of
\* failed URLs.
C17_RowsAreSuccesses ==
    phase \in {"run", "tally", "done"} =>
        /\ wtr = <<<<"site", "source", "isbn", "title", "authors">>>>
                    \o OkRows(SubSeq(books, 1, tally_i - 1))
        /\ Len(wtr) - 1 = success_count
        /\ phase = "done" =>
              /\ success_count =
                     Count({k \in 1..Len(books) : books[k].res.ok})
              /\ error_count =
                     Count({i \in Positions :
                               \E k \in ResultsOf(i) : ~books[k].res.ok})
              /\ success_count + error_count = Len(urls)

C17_Witness ==
    /\ phase = "done"
    /\ Len(urls) = 3
    /\ success_count = 2
    /\ error_count = 1
    /\ Len(wtr) = 3
    /\ wtr[2][2] # wtr[3][2]

\* str::split(sep) for a separator of two characters: the pieces between the
\* occurrences of sep, the whole text when there is none
RECURSIVE split_on(_, _)
split_on(s, sep) ==
    IF \E i \in 1..(Len(s) - 1) : SubSeq(s, i, i + 1) = sep
    THEN LET i == CHOOSE k \in 1..(Len(s) - 1) :
                      /\ SubSeq(s, k, k + 1) = sep
                      /\ \A j \in 1..(k - 1) : SubSeq(s, j, j + 1) # sep
         IN  <<SubSeq(s, 1, i - 1)>> \o split_on(SubSeq(s, i + 2, Len(s)), sep)
    ELSE <<s>>

\* C18: for every Record, the authors column of its row is the author names
\* joined in their order with "; ", and splitting the column on "; " gives
\* back the Record's author list.
C18_AuthorsRoundTrip ==
    (pres.op = "tallied" /\ pres.r.ok) =>
        /\ prows[1][5] = join(pres.r.book.authors, <<";", " ">>)
        /\ split_on(prows[1][5], <<";", " ">>) = pres.r.book.authors

\* the seconds a response's Retry-After header states, -1 when it has no
\* header or the header is not an unsigned decimal number
SuppliedSeconds(r) ==
    LET t == r.retry_after.text
        d == IF t # <<>> /\ Head(t) = "+" THEN Tail(t) ELSE t
    IN  IF r.kind = "resp" /\ r.retry_after.present /\ IsNumber(d)
        THEN DecimalValue(d)
        ELSE -1

\* C19: in the retrying fetch, the wait before the retry that follows the
\* attempt with 0-based index a is the Retry-After value in seconds when that
\* attempt got a 429/5xx response with a parseable one, also above the cap,
\* and min(2^a, 8) seconds otherwise; after a network error it is always
\* min(2^a, 8).  No other outcome of an attempt is followed by a wait.
C19_WaitBeforeRetry ==
    /\ Len(fc.waits) = fc.sleeps
    /\ Len(fc.waits) <= Len(fc.hist)
    /\ \A j \in 1..Len(fc.waits) :
          LET a == j - 1
              r == fc.hist[j]
              schedule == IF 2^a < 8 THEN 2^a ELSE 8
          IN  /\ r.kind = "resp" =>
                    /\ r.status = 429 \/ r.status \in 500..599
                    /\ fc.waits[j] = IF SuppliedSeconds(r) >= 0
                                     THEN SuppliedSeconds(r)
                                     ELSE schedule
              /\ r.kind = "neterr" => fc.waits[j] = schedule

C19_Witness ==
    /\ fc.hist # <<>>
    /\ fc.hist[1] = Resp(503, Header(<<"2", "0">>))
    /\ fc.waits = <<20>>
    /\ fc.pc = "send"
    /\ fc.attempt = 1

\* the pieces of s between the characters ',' and ';', cur being the piece
\* read so far
RECURSIVE PiecesFrom(_, _)
PiecesFrom(s, cur) ==
    IF s = <<>> THEN <<cur>>
    ELSE IF Head(s) \in {",", ";"}
    THEN <<cur>> \o PiecesFrom(Tail(s), <<>>)
    ELSE PiecesFrom(Tail(s), Append(cur, Head(s)))

NonBlank(t) == {i \in 1..Len(t) : ~is_whitespace(t[i])}

Min_of(S) == CHOOSE x \in S : \A y \in S : x <= y

Max_of(S) == CHOOSE x \in S : \A y \in S : x >= y

Trimmed(t) ==
    IF NonBlank(t) = {}
    THEN <<>>
    ELSE SubSeq(t, Min_of(NonBlank(t)), Max_of(NonBlank(t)))

Candidates(raw) ==
    LET pieces == PiecesFrom(raw, <<>>)
    IN  SelectSeq([i \in 1..Len(pieces) |-> Trimmed(pieces[i])],
                  LAMBDA t : t # <<>>)

DigitCount(t) == Count({i \in 1..Len(t) : is_ascii_digit(t[i])})

Thirteens(c) == {i \in 1..Len(c) : DigitCount(c[i]) = 13}

Chosen(c) == IF Thirteens(c) # {} THEN c[Min_of(Thirteens(c))] ELSE c[Len(c)]

\* C20: for every raw text, extraction splits it on ',' and ';', trims the
\* tokens and drops the empty ones; with no token left it fails; otherwise
\* it takes the first token with exactly 13 digits, or the last token when
\* none has 13, and returns exactly what validating that token returns.
C20_ExtractionRule ==
    isbn_res.op = "try_from" =>
        LET c == Candidates(isbn_raw)
        IN  IF c = <<>>
            THEN ~isbn_res.ok
            ELSE isbn_res = Tagged("try_from", Isbn_new(Chosen(c)))

C20_Witness ==
    /\ isbn_res.op = "try_from"
    /\ Len(PiecesFrom(isbn_raw, <<>>)) = 3
    /\ Len(Candidates(isbn_raw)) = 2
    /\ Thirteens(Candidates(isbn_raw)) = {}
    /\ isbn_res.ok
    /\ Isbn_as_str(isbn_res) = Candidates(isbn_raw)[2]

\* the steps of a parse_book, and the ones a capability's parse_book has
ParseSteps ==
    <<"fetch", "parse_authors", "parse_title", "parse_isbn",
      "parse_description">>

StepsOf(cap) == IF cap = "EksmoParser" THEN 5 ELSE 4

\* whether step k succeeds on input i, each step taken by itself
StepSucceeds(i, k) ==
    IF k = 1 THEN i.f.pc = "ok"
    ELSE IF i.cap = "EksmoParser"
    THEN IF k = 2 THEN Eksmo_parse_authors(i.page).ok
         ELSE IF k = 3 THEN Eksmo_parse_title(i.page).ok
         ELSE IF k = 4 THEN Eksmo_parse_isbn(i.page, i.url).ok
         ELSE Eksmo_parse_description(i.descr).ok
    ELSE IF k = 2 THEN parse_authors(i.cap, i.page).ok
         ELSE IF k = 3 THEN parse_title(i.cap, i.page).ok
         ELSE parse_isbn(i.cap, i.page, i.url).ok

\* the first step that fails on input i, or the last step if none fails
LastStep(i) ==
    LET failing == {k \in 1..StepsOf(i.cap) : ~StepSucceeds(i, k)}
    IN  IF failing = {}
        THEN StepsOf(i.cap)
        ELSE CHOOSE k \in failing : \A j \in failing : k <= j

\* C21: for every source, parse_book performs its steps in the fixed order
\* fetch, parse_authors, parse_title, parse_isbn (then parse_description where
\* the source has one); fetch is called exactly once; no parser is called when
\* the fetch fails; the first failing step is the last step called.
C21_StepsInOrder ==
    pres.op \in {"parse_book", "eksmo_parse_book", "tallied"} =>
        LET c == pres.r.calls
        IN  /\ c = SubSeq(ParseSteps, 1, LastStep(pin))
            /\ Cardinality({k \in 1..Len(c) : c[k] = "fetch"}) = 1
            /\ ~Fetched(pin) => c = <<"fetch">>
            /\ pres.r.ok <=> \A k \in 1..StepsOf(pin.cap) : StepSucceeds(pin, k)

\* the fetch failed: parse_book returned after that one call
C21_Witness ==
    /\ pres.op = "parse_book"
    /\ ~Fetched(pin)
    /\ pres.r.calls = <<"fetch">>
    /\ ~pres.r.ok

\* the callers that hold a value of cell n of module cap
Holders(cap, n) ==
    {t \in DOMAIN callers : callers[t].cap = cap /\ callers[t].seen[n] # 0}

\* every value a caller got from a cell is the one the cell holds, and the
\* closure of a cell completed at most once
OneInstance ==
    \A cap \in Caps :
        \A n \in 1..Len(OnceCells) :
            /\ cells[cap][n].inits <= 1
            /\ \A t \in Holders(cap, n) :
                   /\ cells[cap][n].state = "set"
                   /\ callers[t].seen[n] = cells[cap][n].value

\* a cell that holds a value keeps it
NeverReplaced ==
    \A cap \in Caps :
        \A n \in 1..Len(OnceCells) :
            cells[cap][n].state = "set" => cells'[cap][n] = cells[cap][n]

\* C22: under every interleaving of concurrent calls of one source, the
\* source's HTTP client and each of its selectors is initialised at most once,
\* every call observes that same instance, and no instance is replaced or
\* created again after its first initialisation.
C22_InitialisedOnce == []OneInstance /\ [][NeverReplaced]_vars

\* two callers of one module went through all four steps and hold the same
\* client and the same selectors
C22_Witness ==
    \E t \in DOMAIN callers :
        \E u \in DOMAIN callers :
            /\ t # u
            /\ callers[t].cap = callers[u].cap
            /\ callers[t].pc = "returned"
            /\ callers[u].pc = "returned"
            /\ \A n \in 1..Len(OnceCells) :
                   /\ callers[t].seen[n] # 0
                   /\ callers[t].seen[n] = callers[u].seen[n]
            /\ created = Len(OnceCells)

\* the elements of s at the positions in P, in the order of s
RECURSIVE AtPositions(_, _, _)
AtPositions(s, P, i) ==
    IF i > Len(s) THEN <<>>
    ELSE IF i \in P THEN <<s[i]>> \o AtPositions(s, P, i + 1)
    ELSE AtPositions(s, P, i + 1)

\* out is a merge of a and b: its positions split into those that spell a and
\* those that spell b
IsMerge(out, a, b) ==
    \E P \in SUBSET (1..Len(out)) :
        /\ AtPositions(out, P, 1) = a
        /\ AtPositions(out, (1..Len(out)) \ P, 1) = b

\* C23: interleave(a, b) yields every element of a and of b exactly once
\* (length |a| + |b|) and keeps the order within a and within b; while both
\* have elements it alternates strictly, starting with a; once one is
\* exhausted it yields the remainder of the other.
C23_FairMerge ==
    merged.done =>
        LET out == merged.val
            n == Len(merge_a)
            m == Len(merge_b)
            k == Min(n, m)
        IN  /\ Len(out) = n + m
            /\ IsMerge(out, merge_a, merge_b)
            /\ \A i \in 1..k :
                   out[2 * i - 1] = merge_a[i] /\ out[2 * i] = merge_b[i]
            /\ SubSeq(out, 2 * k + 1, n + m) =
                   SubSeq(merge_a, k + 1, n) \o SubSeq(merge_b, k + 1, m)

\* a ran out first: after one alternation the rest of b follows
C23_Witness ==
    /\ merged.done
    /\ merge_a = <<UrlIgraSlov>>
    /\ merge_b = <<UrlLabirintBook, UrlIgraSlov, UrlLabirintBook>>
    /\ merged.val =
           <<UrlIgraSlov, UrlLabirintBook, UrlIgraSlov, UrlLabirintBook>>

\* the task of the URL at position i has been started, has completed
Started(i) == i < next_url

Completed(i) == \E k \in 1..Len(books) : books[k].idx = i

\* every URL's task was started and has completed
AllCompleted ==
    /\ in_progress = {}
    /\ \A i \in 1..Len(urls) : Started(i) /\ Completed(i)

\* C24 as stated: every URL's task is eventually started and eventually
\* completes, and the run reaches its final summary.
C24_AsStated ==
    /\ (phase = "run") ~> AllCompleted
    /\ (phase = "run") ~> (phase = "done")

\* a step of the task u: a response or a body arrives for it
Moves(u) == (SendDoneOf(u) \/ BodyDoneOf(u)) /\ u \notin in_progress'

\* while t sleeps, any other task that awaits a response or a body can take
\* its step with t still asleep, and a free slot can be filled
SleepBlocksNothing ==
    \A t \in in_progress :
        t.f.pc = "sleep" =>
            /\ \A u \in in_progress :
                   u.f.pc \in {"send", "body"} =>
                       ENABLED (Moves(u) /\ t \in in_progress')
            /\ (next_url <= Len(urls)
                   /\ Cardinality(in_progress) < concurrent_tasks) =>
                   ENABLED (Start /\ t \in in_progress')

\* C24: once the URL sequence is given to the stream, with any bound N >= 1,
\* and every request and every backoff sleep completes, every URL's task is
\* eventually started and eventually completes, collect() returns, and the
\* run reaches its final summary unless writing a record or flushing the
\* file fails; while a task sleeps in backoff, every other task in flight
\* can take its next step.
C24_EveryTaskCompletes ==
    /\ (phase = "run") ~> (AllCompleted /\ phase = "tally")
    /\ (phase = "run") ~> (phase = "done" \/ exit_err \in WriteErrors)
    /\ []SleepBlocksNothing

\* a task sleeps in backoff while a task started after it has completed
C24_Witness ==
    \E t \in in_progress :
        /\ t.f.pc = "sleep"
        /\ \E k \in 1..Len(books) : books[k].idx > t.idx

\* C25: LabirintParser::fetch called with a URL that does not contain "books"
\* returns an error without issuing any HTTP request and without sleeping.
C25_RejectsWithoutRequest ==
    (fc.pc # "idle" /\ ~contains(fc.url, "books")) =>
        /\ fc.pc = "err"
        /\ fc.err.kind = "not_book_url"
        /\ fc.reqs = 0
        /\ fc.hist = <<>>
        /\ fc.sleeps = 0
        /\ fc.waits = <<>>

\* a call with a Labirint URL of another section has returned its error
C25_Witness ==
    /\ fc.url = UrlLabirintOther
    /\ fc.pc = "err"
    /\ fc.reqs = 0
    /\ fc.sleeps = 0

\* the call received a 2xx response and the read of its body did not succeed
BodyReadFails == fc.pc = "body" /\ fc' # fc /\ fc'.pc # "ok"

\* the step at which the read of the body fails ends the call with an error:
\* no request and no sleep is added, whatever the attempt index
BodyFailureEndsCall ==
    BodyReadFails =>
        /\ is_success(fc.hist[Len(fc.hist)].status)
        /\ fc'.pc = "err"
        /\ fc'.err.kind = "body"
        /\ fc'.reqs = fc.reqs
        /\ fc'.sleeps = fc.sleeps
        /\ fc'.attempt = fc.attempt

\* a call that ended with the body error made no attempt after that response
\* and slept only before it
BodyErrorIsLast ==
    (fc.pc = "err" /\ fc.err.kind = "body") =>
        /\ fc.reqs = Len(fc.hist)
        /\ fc.reqs = fc.attempt + 1
        /\ fc.sleeps = fc.attempt

\* C27: in LabirintParser::fetch, when an attempt receives a 2xx response but
\* reading its body fails, the fetch returns an error immediately, with no
\* further attempt and no sleep, even when the attempt index is below
\* MAX_RETRIES.
C27_BodyFailureIsFinal == [][BodyFailureEndsCall]_vars /\ []BodyErrorIsLast

\* the first attempt got a 200 whose body could not be read: one request, no
\* sleep, although a retry was left
C27_Witness ==
    /\ fc.pc = "err"
    /\ fc.err.kind = "body"
    /\ fc.attempt = 0
    /\ fc.attempt < MAX_RETRIES
    /\ fc.hist = <<Resp(200, NoHeader)>>
    /\ fc.reqs = 1
    /\ fc.sleeps = 0

\* a task run by itself to its end, the server following the script
RECURSIVE Drive(_, _, _)
Drive(cap, f, script) ==
    IF f.pc = "send"
    THEN Drive(cap, on_send(cap, f, script.resp[f.attempt + 1]), script)
    ELSE IF f.pc = "sleep"
    THEN Drive(cap, Labirint_on_wake(f), script)
    ELSE IF f.pc = "body"
    THEN Drive(cap, on_body(cap, f, script.body_ok), script)
    ELSE f

\* the result of the URL's task when no other task runs
RunAlone(url) ==
    LET cap == Dispatch(url)
        f0 == fetch(cap, url)
    IN  IF cap = "none"
        THEN Outcome(TaskErr("unknown_source", Unknown_error(url)))
        ELSE IF f0.pc = "err"
        THEN Outcome(parse_book(cap, url, f0, NoBook))
        ELSE Outcome(parse_book(cap, url, Drive(cap, f0, oracle[url]),
                                oracle[url].page))

\* collect() has returned
AllCollected == phase \in {"tally", "done"} \/ exit_err \in WriteErrors

\* C26: for a fixed URL sequence and fixed per-URL fetch and parse outcomes,
\* every interleaving of the tasks yields the same multiset of results: each
\* URL's result is the one its task yields when run alone, every URL has
\* exactly one result once the results are collected, and the counts of the
\* summary are those of that multiset; only the order of the collected
\* results varies.
C26_SameResults ==
    /\ \A k \in 1..Len(books) :
           /\ books[k].res = RunAlone(urls[books[k].idx])
           /\ \A j \in 1..Len(books) :
                  books[j].idx = books[k].idx => j = k
    /\ AllCollected =>
           {books[k].idx : k \in 1..Len(books)} = 1..Len(urls)
    /\ phase = "done" =>
           /\ success_count =
                  Cardinality({i \in 1..Len(urls) : RunAlone(urls[i]).ok})
           /\ error_count =
                  Cardinality({i \in 1..Len(urls) : ~RunAlone(urls[i]).ok})

\* all results are collected, a success and a failure among them, in an order
\* that is not the order of the URLs
C26_Witness ==
    /\ phase = "tally"
    /\ Len(books) = Len(urls)
    /\ \E k \in 1..Len(books) : books[k].idx # k
    /\ \E k \in 1..Len(books) : books[k].res.ok
    /\ \E k \in 1..Len(books) : ~books[k].res.ok

====
